---- MODULE Spec2Model ----
\* Model of the fave bookmark store (internal/store/store.go), its snapshot
\* persistence, the server process lifecycle around it
\* (internal/server/server.go, cmd/serve.go), the HTTP handlers and the
\* authentication middleware in front of it (internal/server), the retrying
\* client (internal/client/client.go) and the handlers of the web package
\* (web/server.go).
EXTENDS Integers, Sequences, FiniteSets, TLC

VARIABLES
    Bookmarks,    \* Store.Bookmarks: map[int]Bookmark (a function on a set of ids)
    IdxCounter,   \* Store.IdxCounter
    writer,       \* Store.mutex: the goroutine holding the write lock, or None
    readers,      \* Store.mutex: the goroutines holding the read lock
    pc,           \* position of every goroutine inside a Store operation
    local,        \* arguments of the operation a goroutine is executing
    buf,          \* SaveSnapshot: b, the marshalled bytes
    file,         \* the backing file s.fileName on disk
    tmp,          \* the temporary file of the SaveSnapshot call in progress
    phase,        \* "serving" while the process runs, "down" after it exited
    exit,         \* why the process exited
    closeCalls,   \* history: the calls of Server.Close in this process
    closeLog,     \* history: the steps Server.Close has carried out
    log,          \* history: the Adds and successful Deletes of this Store, in order
    snap,         \* history: the most recent SaveSnapshot call
    crash,        \* history: where SaveSnapshot stood when the process ended
    fresh,        \* history: no Store operation has started since NewStore
    alias,        \* the <<goroutine, id>> pairs whose held List result still shares
                  \* the backing array of Tags with the record the Store holds at id
    lastWrite,    \* history: per id, the record Add or Update wrote there last
    config,       \* the Config that LoadConfig assembled for this program
    http,         \* the request the HTTP layer served last and its response
    client        \* the call of the Client in progress (doWithRetry)

vars == <<Bookmarks, IdxCounter, writer, readers, pc, local, buf, file, tmp,
          phase, exit, closeCalls, closeLog, log, snap, crash, fresh,
          alias, lastWrite, config, http, client>>

\* ---------------------------------------------------------------- bounds
MaxId == 2

\* ------------------------------------------------------------ goroutines
Handlers == {"h1", "h2"}
Loop == "loop"
Procs == Handlers \cup {Loop}
None == "none"

\* --------------------------------------------------------------- records
\* A Go string is a sequence of units; BadByte is a byte that is not valid
\* UTF-8, ReplacementRune is U+FFFD.
BadByte == "xFF"
ReplacementRune == "uFFFD"

NilTags == [isNil |-> TRUE, elems |-> <<>>]
EmptyTags == [isNil |-> FALSE, elems |-> <<>>]

Bookmark(url, name, description, tags) ==
    [Url |-> url, Name |-> name, Description |-> description, Tags |-> tags]

ZeroBookmark == Bookmark(<<>>, <<>>, <<>>, NilTags)

BmPlain == Bookmark(<<"u">>, <<"a">>, <<>>, EmptyTags)
BmBytes == Bookmark(<<"u">>, <<BadByte>>, <<>>, NilTags)
Inputs == {BmPlain, BmBytes}

\* The records the callers of the Store API pass in; one has a Tags element.
BmTagged == Bookmark(<<"u">>, <<"a">>, <<>>, [isNil |-> FALSE, elems |-> << <<"t">> >>])
Records == {BmTagged, BmBytes}

EmptyMap == [k \in {} |-> ZeroBookmark]

MapPut(m, k, v) == [x \in (DOMAIN m) \cup {k} |-> IF x = k THEN v ELSE m[x]]
MapDelete(m, k) == [x \in (DOMAIN m) \ {k} |-> m[x]]

\* ------------------------------------------------------------- JSON codec
Digits == <<"0", "1", "2", "3", "4", "5", "6", "7", "8", "9">>

RECURSIVE Itoa(_)
Itoa(n) == IF n < 10 THEN <<Digits[n + 1]>>
           ELSE Itoa(n \div 10) \o <<Digits[(n % 10) + 1]>>

DigitVal(ch) == CHOOSE d \in 0..9 : Digits[d + 1] = ch

RECURSIVE Atoi(_)
Atoi(s) == IF Len(s) = 1 THEN DigitVal(s[1])
           ELSE 10 * Atoi(SubSeq(s, 1, Len(s) - 1)) + DigitVal(s[Len(s)])

\* encoding/json writes a string coerced to valid UTF-8: every invalid byte
\* becomes the replacement rune.
CoerceUTF8(s) == [i \in DOMAIN s |-> IF s[i] = BadByte THEN ReplacementRune ELSE s[i]]

ValidUTF8(s) == \A i \in DOMAIN s : s[i] # BadByte

EncodeTags(t) == IF t.isNil THEN [null |-> TRUE, items |-> <<>>]
                 ELSE [null |-> FALSE,
                       items |-> [i \in DOMAIN t.elems |-> CoerceUTF8(t.elems[i])]]

DecodeTags(j) == IF j.null THEN NilTags ELSE [isNil |-> FALSE, elems |-> j.items]

EncodeBookmark(b) ==
    [url |-> CoerceUTF8(b.Url), name |-> CoerceUTF8(b.Name),
     description |-> CoerceUTF8(b.Description), tags |-> EncodeTags(b.Tags)]

DecodeBookmark(j) == Bookmark(j.url, j.name, j.description, DecodeTags(j.tags))

\* json.Marshal(s): the exported fields of Store, map keys as decimal strings.
MarshalWithoutCounter(m, c) ==
    [kind |-> "json",
     bookmarks |-> [k \in {Itoa(i) : i \in DOMAIN m} |-> EncodeBookmark(m[Atoi(k)])],
     idx_counter |-> 0]

MarshalCounterAsLen(m, c) ==
    [kind |-> "json",
     bookmarks |-> [k \in {Itoa(i) : i \in DOMAIN m} |-> EncodeBookmark(m[Atoi(k)])],
     idx_counter |-> Cardinality(DOMAIN m)]

MarshalBookmarks(m) ==
    [k \in {Itoa(i) : i \in DOMAIN m} |-> EncodeBookmark(m[Atoi(k)])]

Marshal(m, c) == [kind |-> "json", bookmarks |-> MarshalBookmarks(m), idx_counter |-> c]

\* -------------------------------------------------------------- the disk
AbsentFile == [kind |-> "absent", bookmarks |-> <<>>, idx_counter |-> 0]
EmptyFile == [kind |-> "empty", bookmarks |-> <<>>, idx_counter |-> 0]
\* a strict prefix of a marshalled document
PartialFile == [kind |-> "partial", bookmarks |-> <<>>, idx_counter |-> 0]

Exists(f) == f.kind # "absent"
Size(f) == IF f.kind \in {"absent", "empty"} THEN 0 ELSE 1

\* decoder.Decode(store) into the freshly made Store of NewStore.
Decode(f) ==
    IF f.kind = "json"
    THEN [ok |-> TRUE,
          Bookmarks |-> [i \in {Atoi(k) : k \in DOMAIN f.bookmarks} |->
                            DecodeBookmark(f.bookmarks[Itoa(i)])],
          IdxCounter |-> f.idx_counter]
    ELSE [ok |-> FALSE, Bookmarks |-> EmptyMap, IdxCounter |-> 0]

NewStoreLenient(f) ==
    IF Size(f) > 0 /\ Decode(f).ok THEN Decode(f)
    ELSE [ok |-> TRUE, Bookmarks |-> EmptyMap, IdxCounter |-> 0]

\* What NewStore(fileName) yields for a backing file.
NewStore(f) ==
    IF Size(f) > 0 THEN Decode(f)
    ELSE [ok |-> TRUE, Bookmarks |-> EmptyMap, IdxCounter |-> 0]

\* --------------------------------------------------------------- history
\* errors.New("bookmark not found")
NotFound == "bookmark not found"
\* local[p]: the arguments of the operation p executes (bookmark, id) and,
\* once its body ran, its results (err; bookmark for Get; list for List).
NoLocal == [bookmark |-> ZeroBookmark, id |-> 0, err |-> None, list |-> EmptyMap]
\* snap.pre is the backing file when the call began, snap.new the bytes it
\* marshalled, snap.bookmarks and snap.counter the state it marshalled;
\* snap.intact tells, once the call has returned, whether the backing file
\* was then snap.pre or snap.new.
NoSnap == [state |-> "none", pre |-> AbsentFile, new |-> AbsentFile,
           bookmarks |-> EmptyMap, counter |-> 0, intact |-> TRUE]
\* crash.step is the position of SaveSnapshot when the process ended and
\* crash.intact whether the backing file was then snap.pre or snap.new.
NoCrash == [step |-> "idle", intact |-> TRUE]

\* --------------------------------------------------------- configuration
\* The fields of Config that Validate reads, SnapshotInterval and
\* AuthPassword. AuthPassword is a sequence of bytes, as the middleware
\* compares it with decoded bytes; the empty one means no auth required.
NoPassword == <<>>
DefaultConfig ==
    [Port |-> "8080", StoreFileName |-> "./data/bookmarks.json",
     LogLevel |-> "info", SnapshotInterval |-> "1s", AuthPassword |-> NoPassword]

\* What the flags, the environment and the config file can make of it.
Configs ==
    [Port : {"", "8080"}, StoreFileName : {"", "./data/bookmarks.json"},
     LogLevel : {"info", "verbose"}, SnapshotInterval : {"1s", "0s", "-5s", "abc"},
     AuthPassword : {NoPassword}]

\* Config.Validate: the error it returns, or None for nil.
Validate(c) ==
    IF c.Port = "" THEN "port cannot be empty"
    ELSE IF c.StoreFileName = "" THEN "store file name cannot be empty"
    ELSE IF c.LogLevel \notin {"debug", "info", "warn", "error"} THEN "invalid log level"
    ELSE None

\* ------------------------------------------------- requests and calls
\* http: no request has been served yet. NoBody is the body of a request
\* that has none.
NoBody == [kind |-> "none", json |-> EncodeBookmark(ZeroBookmark)]
NoRequest == [method |-> None, path |-> None, id |-> <<>>, auth |-> <<>>, body |-> NoBody]
NoHttp == [req |-> NoRequest, handler |-> None, status |-> 0]
\* client: no call is in progress. attempt is the loop variable of
\* doWithRetry, trace holds the error of every doRequest of this call (Nil
\* for nil), err is what the call returned, created counts the records the
\* requests of this call made the server add.
Nil == [kind |-> "nil", StatusCode |-> 0]
NoClient == [state |-> "idle", op |-> None, RetryAttempts |-> 0, attempt |-> 0,
             trace |-> <<>>, err |-> Nil, created |-> 0]

\* ------------------------------------------------------------------ Init
\* The process right after RunServe constructed the Store on an absent file.
Init ==
    /\ Bookmarks = EmptyMap
    /\ IdxCounter = 0
    /\ writer = None
    /\ readers = {}
    /\ pc = [p \in Procs |-> "idle"]
    /\ local = [p \in Procs |-> NoLocal]
    /\ buf = AbsentFile
    /\ file = EmptyFile
    /\ tmp = AbsentFile
    /\ phase = "serving"
    /\ exit = None
    /\ closeCalls = 0
    /\ closeLog = <<>>
    /\ log = <<>>
    /\ snap = NoSnap
    /\ crash = NoCrash
    /\ fresh = TRUE
    /\ alias = {}
    /\ lastWrite = EmptyMap
    /\ config = DefaultConfig
    /\ http = NoHttp
    /\ client = NoClient

\* ------------------------------------------------------------- the mutex
CanLockIgnoringReaders == writer = None
CanLock == writer = None /\ readers = {}
CanRLockIgnoringWriter == TRUE
CanRLock == writer = None

LockedBy(p) == writer' = p /\ UNCHANGED readers
Unlock(p) == writer' = (IF writer = p THEN None ELSE writer) /\ readers' = readers \ {p}

\* A goroutine that can begin a Store operation: a handler once the server
\* serves, storeSnapshotLoop from server.New on.
Idle(p) ==
    /\ pc[p] = "idle"
    /\ phase = "serving" \/ (p = Loop /\ phase = "constructed")

disk == <<buf, file, tmp, snap>>
net == <<http, client>>
life == <<phase, exit, crash, closeCalls, closeLog, config, net>>
hist == <<log>>
mem == <<Bookmarks, IdxCounter>>
held == <<alias, lastWrite>>

Goto(p, label) == pc' = [pc EXCEPT ![p] = label]

\* ------------------------------------------------------------- Store.Add
AddLockShared(p, b) ==
    /\ p \in Handlers /\ Idle(p)
    /\ IdxCounter < MaxId
    /\ CanRLock
    /\ readers' = readers \cup {p}
    /\ UNCHANGED writer
    /\ Goto(p, "add_increment")
    /\ local' = [local EXCEPT ![p] = [NoLocal EXCEPT !.bookmark = b]]
    /\ fresh' = FALSE
    /\ UNCHANGED <<mem, disk, life, hist, held>>

AddLock(p, b) ==
    /\ p \in Handlers /\ Idle(p)
    /\ IdxCounter < MaxId
    /\ CanLock
    /\ LockedBy(p)
    /\ Goto(p, "add_increment")
    /\ local' = [local EXCEPT ![p] = [NoLocal EXCEPT !.bookmark = b]]
    /\ fresh' = FALSE
    /\ UNCHANGED <<mem, disk, life, hist, held>>

AddIncrementByLen(p) ==
    /\ pc[p] = "add_increment"
    /\ IdxCounter' = Cardinality(DOMAIN Bookmarks) + 1
    /\ Goto(p, "add_insert")
    /\ fresh' = FALSE
    /\ UNCHANGED <<Bookmarks, writer, readers, local, disk, life, hist, held>>

AddIncrement(p) ==
    /\ pc[p] = "add_increment"
    /\ IdxCounter' = IdxCounter + 1
    /\ Goto(p, "add_insert")
    /\ fresh' = FALSE
    /\ UNCHANGED <<Bookmarks, writer, readers, local, disk, life, hist, held>>

AddInsertAtNext(p) ==
    /\ pc[p] = "add_insert"
    /\ Bookmarks' = MapPut(Bookmarks, IdxCounter + 1, local[p].bookmark)
    /\ lastWrite' = MapPut(lastWrite, IdxCounter + 1, local[p].bookmark)
    /\ Goto(p, "add_return")
    /\ fresh' = FALSE
    /\ UNCHANGED <<IdxCounter, writer, readers, local, disk, life, hist, alias>>

AddInsertAtFirst(p) ==
    /\ pc[p] = "add_insert"
    /\ Bookmarks' = MapPut(Bookmarks, 1, local[p].bookmark)
    /\ lastWrite' = MapPut(lastWrite, 1, local[p].bookmark)
    /\ Goto(p, "add_return")
    /\ fresh' = FALSE
    /\ UNCHANGED <<IdxCounter, writer, readers, local, disk, life, hist, alias>>

AddInsert(p) ==
    /\ pc[p] = "add_insert"
    /\ Bookmarks' = MapPut(Bookmarks, IdxCounter, local[p].bookmark)
    /\ lastWrite' = MapPut(lastWrite, IdxCounter, local[p].bookmark)
    /\ Goto(p, "add_return")
    /\ fresh' = FALSE
    /\ UNCHANGED <<IdxCounter, writer, readers, local, disk, life, hist, alias>>

AddReturnPersists(p) ==
    /\ pc[p] = "add_return"
    /\ log' = Append(log, [op |-> "Add", id |-> IdxCounter])
    /\ Unlock(p)
    /\ Goto(p, "idle")
    /\ local' = [local EXCEPT ![p] = NoLocal]
    /\ fresh' = FALSE
    /\ file' = Marshal(Bookmarks, IdxCounter)
    /\ UNCHANGED <<mem, buf, tmp, snap, life, held>>

AddReturn(p) ==
    /\ pc[p] = "add_return"
    /\ log' = Append(log, [op |-> "Add", id |-> IdxCounter])
    /\ Unlock(p)
    /\ Goto(p, "idle")
    /\ local' = [local EXCEPT ![p] = NoLocal]
    /\ fresh' = FALSE
    /\ UNCHANGED <<mem, disk, life, held>>

\* ---------------------------------------------------------- Store.Update
UpdateLock(p, id, b) ==
    /\ p \in Handlers /\ Idle(p)
    /\ CanLock
    /\ LockedBy(p)
    /\ Goto(p, "update")
    /\ local' = [local EXCEPT ![p] = [NoLocal EXCEPT !.bookmark = b, !.id = id]]
    /\ fresh' = FALSE
    /\ UNCHANGED <<mem, disk, life, hist, held>>

\* A record the Store drops or replaces no longer shares anything with the
\* copies handed out earlier.
Unshare(id) == {x \in alias : x[2] # id}

UpdateBodyTorn(p) ==
    /\ pc[p] = "update"
    /\ IF local[p].id \in DOMAIN Bookmarks
       THEN /\ Bookmarks' = MapPut(Bookmarks, local[p].id,
                                    [local[p].bookmark EXCEPT
                                        !.Tags = Bookmarks[local[p].id].Tags])
            /\ lastWrite' = MapPut(lastWrite, local[p].id, local[p].bookmark)
            /\ alias' = Unshare(local[p].id)
            /\ local' = [local EXCEPT ![p].err = None]
       ELSE /\ local' = [local EXCEPT ![p].err = NotFound]
            /\ UNCHANGED <<Bookmarks, held>>
    /\ Goto(p, "update_return")
    /\ fresh' = FALSE
    /\ UNCHANGED <<IdxCounter, writer, readers, disk, life, hist>>

UpdateBodyUpsert(p) ==
    /\ pc[p] = "update"
    /\ IF local[p].id \in DOMAIN Bookmarks
       THEN /\ Bookmarks' = MapPut(Bookmarks, local[p].id, local[p].bookmark)
            /\ lastWrite' = MapPut(lastWrite, local[p].id, local[p].bookmark)
            /\ alias' = Unshare(local[p].id)
            /\ local' = [local EXCEPT ![p].err = None]
       ELSE /\ Bookmarks' = MapPut(Bookmarks, local[p].id, local[p].bookmark)
            /\ lastWrite' = MapPut(lastWrite, local[p].id, local[p].bookmark)
            /\ alias' = Unshare(local[p].id)
            /\ local' = [local EXCEPT ![p].err = None]
    /\ Goto(p, "update_return")
    /\ fresh' = FALSE
    /\ UNCHANGED <<IdxCounter, writer, readers, disk, life, hist>>

UpdateBodyReplaceAll(p) ==
    /\ pc[p] = "update"
    /\ IF local[p].id \in DOMAIN Bookmarks
       THEN /\ Bookmarks' = [k \in DOMAIN Bookmarks |-> local[p].bookmark]
            /\ lastWrite' = MapPut(lastWrite, local[p].id, local[p].bookmark)
            /\ alias' = Unshare(local[p].id)
            /\ local' = [local EXCEPT ![p].err = None]
       ELSE /\ local' = [local EXCEPT ![p].err = NotFound]
            /\ UNCHANGED <<Bookmarks, held>>
    /\ Goto(p, "update_return")
    /\ fresh' = FALSE
    /\ UNCHANGED <<IdxCounter, writer, readers, disk, life, hist>>

UpdateBodyDropsWrite(p) ==
    /\ pc[p] = "update"
    /\ IF local[p].id \in DOMAIN Bookmarks
       THEN /\ Bookmarks' = Bookmarks
            /\ lastWrite' = MapPut(lastWrite, local[p].id, local[p].bookmark)
            /\ alias' = Unshare(local[p].id)
            /\ local' = [local EXCEPT ![p].err = None]
       ELSE /\ local' = [local EXCEPT ![p].err = NotFound]
            /\ UNCHANGED <<Bookmarks, held>>
    /\ Goto(p, "update_return")
    /\ fresh' = FALSE
    /\ UNCHANGED <<IdxCounter, writer, readers, disk, life, hist>>

UpdateBody(p) ==
    /\ pc[p] = "update"
    /\ IF local[p].id \in DOMAIN Bookmarks
       THEN /\ Bookmarks' = MapPut(Bookmarks, local[p].id, local[p].bookmark)
            /\ lastWrite' = MapPut(lastWrite, local[p].id, local[p].bookmark)
            /\ alias' = Unshare(local[p].id)
            /\ local' = [local EXCEPT ![p].err = None]
       ELSE /\ local' = [local EXCEPT ![p].err = NotFound]
            /\ UNCHANGED <<Bookmarks, held>>
    /\ Goto(p, "update_return")
    /\ fresh' = FALSE
    /\ UNCHANGED <<IdxCounter, writer, readers, disk, life, hist>>

\* Update returns its error; the deferred Unlock runs.
UpdateReturn(p) ==
    /\ pc[p] = "update_return"
    /\ Unlock(p)
    /\ Goto(p, "idle")
    /\ local' = [local EXCEPT ![p] = NoLocal]
    /\ fresh' = FALSE
    /\ UNCHANGED <<mem, disk, life, hist, held>>

\* ---------------------------------------------------------- Store.Delete
DeleteLock(p, id) ==
    /\ p \in Handlers /\ Idle(p)
    /\ CanLock
    /\ LockedBy(p)
    /\ Goto(p, "delete")
    /\ local' = [local EXCEPT ![p] = [NoLocal EXCEPT !.id = id]]
    /\ fresh' = FALSE
    /\ UNCHANGED <<mem, disk, life, hist, held>>

DeleteBodyReclaim(p) ==
    /\ pc[p] = "delete"
    /\ IF local[p].id \in DOMAIN Bookmarks
       THEN /\ Bookmarks' = MapDelete(Bookmarks, local[p].id)
            /\ IdxCounter' = IF local[p].id = IdxCounter THEN IdxCounter - 1 ELSE IdxCounter
            /\ lastWrite' = MapDelete(lastWrite, local[p].id)
            /\ alias' = Unshare(local[p].id)
            /\ log' = Append(log, [op |-> "Delete", id |-> local[p].id])
            /\ local' = [local EXCEPT ![p].err = None]
       ELSE /\ local' = [local EXCEPT ![p].err = NotFound]
            /\ UNCHANGED <<Bookmarks, IdxCounter, log, held>>
    /\ Goto(p, "delete_return")
    /\ fresh' = FALSE
    /\ UNCHANGED <<writer, readers, disk, life>>

DeleteBody(p) ==
    /\ pc[p] = "delete"
    /\ IF local[p].id \in DOMAIN Bookmarks
       THEN /\ Bookmarks' = MapDelete(Bookmarks, local[p].id)
            /\ lastWrite' = MapDelete(lastWrite, local[p].id)
            /\ alias' = Unshare(local[p].id)
            /\ log' = Append(log, [op |-> "Delete", id |-> local[p].id])
            /\ local' = [local EXCEPT ![p].err = None]
       ELSE /\ local' = [local EXCEPT ![p].err = NotFound]
            /\ UNCHANGED <<Bookmarks, log, held>>
    /\ Goto(p, "delete_return")
    /\ fresh' = FALSE
    /\ UNCHANGED <<IdxCounter, writer, readers, disk, life>>

\* Delete returns its error; the deferred Unlock runs.
DeleteReturn(p) ==
    /\ pc[p] = "delete_return"
    /\ Unlock(p)
    /\ Goto(p, "idle")
    /\ local' = [local EXCEPT ![p] = NoLocal]
    /\ fresh' = FALSE
    /\ UNCHANGED <<mem, disk, life, hist, held>>

\* ------------------------------------------------------------- Store.Get
GetLock(p, id) ==
    /\ p \in Handlers /\ Idle(p)
    /\ CanRLock
    /\ readers' = readers \cup {p}
    /\ UNCHANGED writer
    /\ Goto(p, "get")
    /\ local' = [local EXCEPT ![p] = [NoLocal EXCEPT !.id = id]]
    /\ fresh' = FALSE
    /\ UNCHANGED <<mem, disk, life, hist, held>>

\* bookmark, exists := s.Bookmarks[id]
Lookup(m, id) ==
    IF id \in DOMAIN m THEN [err |-> None, bookmark |-> m[id]]
    ELSE [err |-> NotFound, bookmark |-> ZeroBookmark]

GetBody(p) ==
    /\ pc[p] = "get"
    /\ local' = [local EXCEPT ![p].err = Lookup(Bookmarks, local[p].id).err,
                              ![p].bookmark = Lookup(Bookmarks, local[p].id).bookmark]
    /\ Goto(p, "get_return")
    /\ fresh' = FALSE
    /\ UNCHANGED <<mem, writer, readers, disk, life, hist, held>>

\* Get returns (bookmark, err); the deferred RUnlock runs.
GetReturn(p) ==
    /\ pc[p] = "get_return"
    /\ Unlock(p)
    /\ Goto(p, "idle")
    /\ local' = [local EXCEPT ![p] = NoLocal]
    /\ fresh' = FALSE
    /\ UNCHANGED <<mem, disk, life, hist, held>>

\* ------------------------------------------------------------ Store.List
ListLock(p) ==
    /\ p \in Handlers /\ Idle(p)
    /\ CanRLock
    /\ readers' = readers \cup {p}
    /\ UNCHANGED writer
    /\ Goto(p, "list")
    /\ local' = [local EXCEPT ![p] = NoLocal]
    /\ fresh' = FALSE
    /\ UNCHANGED <<mem, disk, life, hist, held>>

\* maps.Clone(s.Bookmarks): a new map with the same keys and, by assignment,
\* the same values; a copied Bookmark has its own string fields and slice
\* header, and shares the backing array of Tags with the original.
Clone(m) == [k \in DOMAIN m |-> m[k]]

ListBody(p) ==
    /\ pc[p] = "list"
    /\ local' = [local EXCEPT ![p].list = Clone(Bookmarks)]
    /\ alias' = alias \cup {<<p, id>> : id \in DOMAIN Bookmarks}
    /\ Goto(p, "list_return")
    /\ fresh' = FALSE
    /\ UNCHANGED <<mem, writer, readers, disk, life, hist, lastWrite>>

\* List returns the clone; the deferred RUnlock runs; the caller holds the map.
ListReturn(p) ==
    /\ pc[p] = "list_return"
    /\ Unlock(p)
    /\ Goto(p, "holding")
    /\ fresh' = FALSE
    /\ UNCHANGED <<mem, local, disk, life, hist, held>>

\* The caller is done with the map List returned (a handler has encoded it
\* into the response).
ListDrop(p) ==
    /\ pc[p] = "holding"
    /\ Goto(p, "idle")
    /\ local' = [local EXCEPT ![p] = NoLocal]
    /\ alias' = {x \in alias : x[1] # p}
    /\ UNCHANGED <<mem, writer, readers, disk, life, hist, fresh, lastWrite>>

\* ------------------------------------------- a caller of the Store API
\* The caller assigns to a key of the map List returned:
\* bookmarks[id] = bookmark (TestList_ReturnsCopy).
CallerPut(p, id, b) ==
    /\ pc[p] = "holding"
    /\ local[p].list # MapPut(local[p].list, id, b)
    /\ local' = [local EXCEPT ![p].list = MapPut(local[p].list, id, b)]
    /\ alias' = {x \in alias : x # <<p, id>>}
    /\ UNCHANGED <<mem, writer, readers, pc, disk, life, hist, fresh, lastWrite>>

\* The element a caller writes into a Tags slice.
Scribble == <<"x">>

WriteTag(b) == [b EXCEPT !.Tags.elems[1] = Scribble]

\* The caller assigns to an element of the Tags of a record in the map List
\* returned: bookmarks[id].Tags[0] = "x". The write lands in the backing
\* array, so every record that shares the array shows it.
CallerWriteTag(p, id) ==
    /\ pc[p] = "holding"
    /\ id \in DOMAIN local[p].list
    /\ Len(local[p].list[id].Tags.elems) > 0
    /\ local[p].list[id].Tags.elems[1] # Scribble
    /\ LET sharing(q) == q = p \/ (<<p, id>> \in alias /\ <<q, id>> \in alias)
       IN /\ local' = [q \in Procs |->
                          IF sharing(q)
                          THEN [local[q] EXCEPT !.list[id] = WriteTag(@)]
                          ELSE local[q]]
          /\ Bookmarks' = IF <<p, id>> \in alias
                          THEN [Bookmarks EXCEPT ![id] = WriteTag(@)]
                          ELSE Bookmarks
    /\ UNCHANGED <<IdxCounter, writer, readers, pc, disk, life, hist, fresh, held>>

\* ---------------------------------------------------- Store.SaveSnapshot
\* Called by storeSnapshotLoop on every tick of the ticker.
\* SnapReturn: the call returns (nil for "ok", the error for "failed") with
\* the backing file being f; the deferred Unlock runs.
SnapReturnStopsLoop(result, f) ==
    /\ file' = f
    /\ snap' = [state |-> result, pre |-> AbsentFile, new |-> AbsentFile,
                bookmarks |-> IF result = "ok" THEN snap.bookmarks ELSE EmptyMap,
                counter |-> IF result = "ok" THEN snap.counter ELSE 0,
                intact |-> f \in {snap.pre, snap.new}]
    /\ Unlock(Loop)
    /\ Goto(Loop, IF result = "ok" THEN "idle" ELSE "stopped")
    /\ buf' = AbsentFile

SnapReturn(result, f) ==
    /\ file' = f
    /\ snap' = [state |-> result, pre |-> AbsentFile, new |-> AbsentFile,
                bookmarks |-> IF result = "ok" THEN snap.bookmarks ELSE EmptyMap,
                counter |-> IF result = "ok" THEN snap.counter ELSE 0,
                intact |-> f \in {snap.pre, snap.new}]
    /\ Unlock(Loop)
    /\ Goto(Loop, "idle")
    /\ buf' = AbsentFile

SnapLockNoLock ==
    /\ Idle(Loop)
    /\ UNCHANGED <<writer, readers>>
    /\ Goto(Loop, "snap_marshal")
    /\ snap' = [state |-> "running", pre |-> file, new |-> file,
                bookmarks |-> Bookmarks, counter |-> IdxCounter, intact |-> TRUE]
    /\ UNCHANGED <<mem, local, buf, file, tmp, life, hist, fresh, held>>

SnapLock ==
    /\ Idle(Loop)
    /\ CanLock
    /\ LockedBy(Loop)
    /\ Goto(Loop, "snap_marshal")
    /\ snap' = [state |-> "running", pre |-> file, new |-> file,
                bookmarks |-> Bookmarks, counter |-> IdxCounter, intact |-> TRUE]
    /\ UNCHANGED <<mem, local, buf, file, tmp, life, hist, fresh, held>>

SnapMarshal ==
    /\ pc[Loop] = "snap_marshal"
    /\ buf' = Marshal(Bookmarks, IdxCounter)
    /\ snap' = [snap EXCEPT !.new = Marshal(Bookmarks, IdxCounter)]
    /\ Goto(Loop, "snap_create")
    /\ UNCHANGED <<mem, writer, readers, local, file, tmp, life, hist, fresh, held>>

\* os.CreateTemp(filepath.Dir(s.fileName), "snapshot-*.json")
SnapCreateTemp(ok) ==
    /\ pc[Loop] = "snap_create"
    /\ IF ok
       THEN /\ tmp' = EmptyFile
            /\ Goto(Loop, "snap_write")
            /\ UNCHANGED <<writer, readers, buf, snap, file>>
       ELSE /\ SnapReturn("failed", file)
            /\ UNCHANGED tmp
    /\ UNCHANGED <<mem, local, life, hist, fresh, held>>

SnapWriteDropsOnFailure(ok) ==
    /\ pc[Loop] = "snap_write"
    /\ IF ok
       THEN /\ tmp' = buf
            /\ Goto(Loop, "snap_close")
            /\ UNCHANGED <<mem, writer, readers, buf, snap, file>>
       ELSE /\ tmp' \in {EmptyFile, PartialFile}
            /\ SnapReturn("failed", file)
            /\ Bookmarks' = EmptyMap
            /\ UNCHANGED IdxCounter
    /\ UNCHANGED <<local, life, hist, fresh, held>>

\* tmpf.Write(b): a failed write may leave any prefix of b in the file.
SnapWrite(ok) ==
    /\ pc[Loop] = "snap_write"
    /\ IF ok
       THEN /\ tmp' = buf
            /\ Goto(Loop, "snap_close")
            /\ UNCHANGED <<writer, readers, buf, snap, file>>
       ELSE /\ tmp' \in {EmptyFile, PartialFile}
            /\ SnapReturn("failed", file)
    /\ UNCHANGED <<mem, local, life, hist, fresh, held>>

\* tmpf.Close()
SnapClose(ok) ==
    /\ pc[Loop] = "snap_close"
    /\ IF ok
       THEN /\ Goto(Loop, "snap_remove")
            /\ UNCHANGED <<writer, readers, buf, snap, file>>
       ELSE SnapReturn("failed", file)
    /\ UNCHANGED <<mem, local, tmp, life, hist, fresh, held>>

\* os.Stat(s.fileName) and, when the file exists, os.Remove(s.fileName).
SnapRemove(ok) ==
    /\ pc[Loop] = "snap_remove"
    /\ IF Exists(file)
       THEN IF ok
            THEN /\ file' = AbsentFile
                 /\ Goto(Loop, "snap_rename")
                 /\ UNCHANGED <<writer, readers, buf, snap>>
            ELSE SnapReturn("failed", file)
       ELSE /\ Goto(Loop, "snap_rename")
            /\ UNCHANGED <<writer, readers, buf, snap, file>>
    /\ UNCHANGED <<mem, local, tmp, life, hist, fresh, held>>

\* os.Rename(tmpf.Name(), s.fileName)
SnapRename(ok) ==
    /\ pc[Loop] = "snap_rename"
    /\ IF ok
       THEN /\ tmp' = AbsentFile
            /\ SnapReturn("ok", tmp)
       ELSE /\ SnapReturn("failed", file)
            /\ UNCHANGED tmp
    /\ UNCHANGED <<mem, local, life, hist, fresh, held>>

\* ------------------------------------------------- the process lifecycle
\* The process ends: every goroutine, the mutex and the memory go with it;
\* the files stay as they are.
ProcessExit(reason) ==
    /\ phase' = "down"
    /\ exit' = reason
    /\ crash' = [step |-> pc[Loop],
                 intact |-> pc[Loop] = "idle" \/ file \in {snap.pre, snap.new}]
    /\ pc' = [p \in Procs |-> "idle"]
    /\ local' = [p \in Procs |-> NoLocal]
    /\ writer' = None
    /\ readers' = {}
    /\ buf' = AbsentFile
    /\ tmp' = AbsentFile
    /\ snap' = IF snap.state = "running" THEN NoSnap ELSE snap
    /\ alias' = {}
    /\ UNCHANGED <<mem, file, hist, fresh, lastWrite, config, net>>

\* The process ends without Server.Close having been called.
Abort(reason) ==
    /\ ProcessExit(reason)
    /\ UNCHANGED <<closeCalls, closeLog>>

\* The process is terminated from outside (SIGKILL, power loss).
Kill ==
    /\ phase = "serving"
    /\ Abort("killed")

\* Server.Close: panic("NOT IMPLEMENTED"). It carries out no step, and
\* nothing recovers the panic, so it ends the process.
Close ==
    /\ closeCalls' = closeCalls + 1
    /\ closeLog' = closeLog
    /\ ProcessExit("panic")

\* RunServe: SIGINT or SIGTERM makes ctx.Done() ready and RunServe calls
\* srv.Close().
Shutdown ==
    /\ phase = "serving"
    /\ Close

\* RunServe: srv.Start() returned an error on errChan; RunServe returns it.
ServeError ==
    /\ phase = "serving"
    /\ Abort("serve_error")

\* RunServe on the next start of the program: LoadConfig, which ends with
\* Validate; NewStore(config.StoreFileName); then server.New, which starts
\* storeSnapshotLoop with a ticker of one second.
Startup ==
    /\ phase = "down"
    /\ IF Validate(config) # None
       THEN /\ exit' = "config_error"
            /\ UNCHANGED <<mem, phase, lastWrite, file>>
       ELSE LET f == IF Exists(file) THEN file ELSE EmptyFile
                s == NewStore(f)
            IN /\ file' = f
               /\ IF s.ok
                  THEN /\ Bookmarks' = s.Bookmarks
                       /\ IdxCounter' = s.IdxCounter
                       /\ lastWrite' = s.Bookmarks
                       /\ phase' = "serving"
                       /\ exit' = None
                  ELSE /\ exit' = "load_error"
                       /\ UNCHANGED <<mem, phase, lastWrite>>
    /\ closeCalls' = 0
    /\ closeLog' = <<>>
    /\ log' = <<>>
    /\ crash' = NoCrash
    /\ fresh' = TRUE
    /\ UNCHANGED <<writer, readers, pc, local, buf, tmp, snap, alias, config, net>>

\* The same start of the program, one call of RunServe at a time.
\* server.LoadConfig(args), which ends with Validate.
LoadConfig ==
    /\ phase = "down"
    /\ IF Validate(config) # None
       THEN /\ exit' = "config_error"
            /\ UNCHANGED phase
       ELSE /\ exit' = None
            /\ phase' = "configured"
    /\ closeCalls' = 0
    /\ closeLog' = <<>>
    /\ crash' = NoCrash
    /\ UNCHANGED <<mem, writer, readers, pc, local, disk, hist, fresh, held, config, net>>

OpenStoreDeferred ==
    /\ phase = "configured"
    /\ file' = (IF Exists(file) THEN file ELSE EmptyFile)
    /\ phase' = "loaded"
    /\ log' = <<>>
    /\ fresh' = TRUE
    /\ UNCHANGED <<mem, lastWrite, exit>>
    /\ UNCHANGED <<writer, readers, pc, local, buf, tmp, snap, alias, crash,
                   closeCalls, closeLog, config, net>>

\* store.NewStore(config.StoreFileName); RunServe returns its error.
OpenStore ==
    /\ phase = "configured"
    /\ LET f == IF Exists(file) THEN file ELSE EmptyFile
           s == NewStore(f)
       IN /\ file' = f
          /\ IF s.ok
             THEN /\ Bookmarks' = s.Bookmarks
                  /\ IdxCounter' = s.IdxCounter
                  /\ lastWrite' = s.Bookmarks
                  /\ phase' = "loaded"
                  /\ UNCHANGED exit
             ELSE /\ exit' = "load_error"
                  /\ phase' = "down"
                  /\ UNCHANGED <<mem, lastWrite>>
    /\ log' = <<>>
    /\ fresh' = TRUE
    /\ UNCHANGED <<writer, readers, pc, local, buf, tmp, snap, alias, crash,
                   closeCalls, closeLog, config, net>>

\* server.New: builds the Server around the Store and starts
\* storeSnapshotLoop.
New ==
    /\ phase = "loaded"
    /\ phase' = "constructed"
    /\ UNCHANGED <<mem, writer, readers, pc, local, disk, hist, fresh, held,
                   exit, crash, closeCalls, closeLog, config, net>>

\* RunServe: go srv.Start(); from here on requests reach the handlers.
Start ==
    /\ phase = "constructed"
    /\ phase' = "serving"
    /\ UNCHANGED <<mem, writer, readers, pc, local, disk, hist, fresh, held,
                   exit, crash, closeCalls, closeLog, config, net>>

Next ==
    \/ \E p \in Handlers, b \in Inputs : AddLock(p, b)
    \/ \E p \in Handlers : AddIncrement(p)
    \/ \E p \in Handlers : AddInsert(p)
    \/ \E p \in Handlers : AddReturn(p)
    \/ \E p \in Handlers, id \in 1..MaxId, b \in Inputs : UpdateLock(p, id, b)
    \/ \E p \in Handlers : UpdateBody(p)
    \/ \E p \in Handlers : UpdateReturn(p)
    \/ \E p \in Handlers, id \in 1..MaxId : DeleteLock(p, id)
    \/ \E p \in Handlers : DeleteBody(p)
    \/ \E p \in Handlers : DeleteReturn(p)
    \/ SnapLock
    \/ SnapMarshal
    \/ \E ok \in BOOLEAN : SnapCreateTemp(ok)
    \/ \E ok \in BOOLEAN : SnapWrite(ok)
    \/ \E ok \in BOOLEAN : SnapClose(ok)
    \/ \E ok \in BOOLEAN : SnapRemove(ok)
    \/ \E ok \in BOOLEAN : SnapRename(ok)
    \/ Kill
    \/ Shutdown
    \/ ServeError
    \/ Startup

Spec == Init /\ [][Next]_vars

\* The Store under its callers while the process runs: the request handlers
\* calling Add, Update, Delete, Get and List.
StoreNext ==
    \/ \E p \in Handlers, b \in Records : AddLock(p, b)
    \/ \E p \in Handlers : AddIncrement(p)
    \/ \E p \in Handlers : AddInsert(p)
    \/ \E p \in Handlers : AddReturn(p)
    \/ \E p \in Handlers, id \in 1..MaxId, b \in Records : UpdateLock(p, id, b)
    \/ \E p \in Handlers : UpdateBody(p)
    \/ \E p \in Handlers : UpdateReturn(p)
    \/ \E p \in Handlers, id \in 1..MaxId : DeleteLock(p, id)
    \/ \E p \in Handlers : DeleteBody(p)
    \/ \E p \in Handlers : DeleteReturn(p)
    \/ \E p \in Handlers, id \in 1..MaxId : GetLock(p, id)
    \/ \E p \in Handlers : GetBody(p)
    \/ \E p \in Handlers : GetReturn(p)
    \/ \E p \in Handlers : ListLock(p)
    \/ \E p \in Handlers : ListBody(p)
    \/ \E p \in Handlers : ListReturn(p)
    \/ \E p \in Handlers : ListDrop(p)

StoreSpec == Init /\ [][StoreNext]_vars

\* Every goroutine that takes Store.mutex: the request handlers and the
\* snapshot loop calling SaveSnapshot.
LockNext ==
    \/ \E p \in Handlers, b \in {BmTagged} : AddLock(p, b)
    \/ \E p \in Handlers : AddIncrement(p)
    \/ \E p \in Handlers : AddInsert(p)
    \/ \E p \in Handlers : AddReturn(p)
    \/ \E p \in Handlers, id \in 1..MaxId, b \in {BmTagged} : UpdateLock(p, id, b)
    \/ \E p \in Handlers : UpdateBody(p)
    \/ \E p \in Handlers : UpdateReturn(p)
    \/ \E p \in Handlers, id \in 1..MaxId : DeleteLock(p, id)
    \/ \E p \in Handlers : DeleteBody(p)
    \/ \E p \in Handlers : DeleteReturn(p)
    \/ \E p \in Handlers, id \in 1..MaxId : GetLock(p, id)
    \/ \E p \in Handlers : GetBody(p)
    \/ \E p \in Handlers : GetReturn(p)
    \/ \E p \in Handlers : ListLock(p)
    \/ \E p \in Handlers : ListBody(p)
    \/ \E p \in Handlers : ListReturn(p)
    \/ \E p \in Handlers : ListDrop(p)
    \/ SnapLock
    \/ SnapMarshal
    \/ \E ok \in BOOLEAN : SnapCreateTemp(ok)
    \/ \E ok \in BOOLEAN : SnapWrite(ok)
    \/ \E ok \in BOOLEAN : SnapClose(ok)
    \/ \E ok \in BOOLEAN : SnapRemove(ok)
    \/ \E ok \in BOOLEAN : SnapRename(ok)

LockSpec == Init /\ [][LockNext]_vars

\* The Store under a caller that also writes to the map List returned, as
\* any Go code holding the Store may.
CallerNext ==
    \/ \E p \in Handlers, b \in Records : AddLock(p, b)
    \/ \E p \in Handlers : AddIncrement(p)
    \/ \E p \in Handlers : AddInsert(p)
    \/ \E p \in Handlers : AddReturn(p)
    \/ \E p \in Handlers, id \in 1..MaxId, b \in Records : UpdateLock(p, id, b)
    \/ \E p \in Handlers : UpdateBody(p)
    \/ \E p \in Handlers : UpdateReturn(p)
    \/ \E p \in Handlers, id \in 1..MaxId : DeleteLock(p, id)
    \/ \E p \in Handlers : DeleteBody(p)
    \/ \E p \in Handlers : DeleteReturn(p)
    \/ \E p \in Handlers, id \in 1..MaxId : GetLock(p, id)
    \/ \E p \in Handlers : GetBody(p)
    \/ \E p \in Handlers : GetReturn(p)
    \/ \E p \in Handlers : ListLock(p)
    \/ \E p \in Handlers : ListBody(p)
    \/ \E p \in Handlers : ListReturn(p)
    \/ \E p \in Handlers : ListDrop(p)
    \/ \E p \in Handlers, id \in 1..MaxId, b \in Records : CallerPut(p, id, b)
    \/ \E p \in Handlers, id \in 1..MaxId : CallerWriteTag(p, id)

CallerSpec == Init /\ [][CallerNext]_vars

\* The start of the program on any configuration and any backing file.
\* SavedFile is a snapshot an earlier process wrote.
SavedFile == Marshal(MapPut(EmptyMap, 1, BmPlain), 1)
Files == {AbsentFile, EmptyFile, PartialFile, SavedFile}

StartInit ==
    /\ Bookmarks = EmptyMap
    /\ IdxCounter = 0
    /\ writer = None
    /\ readers = {}
    /\ pc = [p \in Procs |-> "idle"]
    /\ local = [p \in Procs |-> NoLocal]
    /\ buf = AbsentFile
    /\ file \in Files
    /\ tmp = AbsentFile
    /\ phase = "down"
    /\ exit = None
    /\ closeCalls = 0
    /\ closeLog = <<>>
    /\ log = <<>>
    /\ snap = NoSnap
    /\ crash = NoCrash
    /\ fresh = TRUE
    /\ alias = {}
    /\ lastWrite = EmptyMap
    /\ config \in Configs
    /\ http = NoHttp
    /\ client = NoClient

StartNext ==
    \/ Startup
    \/ \E p \in Handlers, id \in 1..MaxId : GetLock(p, id)
    \/ \E p \in Handlers : GetBody(p)
    \/ \E p \in Handlers : GetReturn(p)
    \/ Kill

StartSpec == StartInit /\ [][StartNext]_vars

\* The start of the program step by step, next to the snapshot loop and the
\* handlers.
BootNext ==
    \/ LoadConfig
    \/ OpenStore
    \/ New
    \/ Start
    \/ \E p \in Handlers, id \in 1..MaxId : GetLock(p, id)
    \/ \E p \in Handlers : GetBody(p)
    \/ \E p \in Handlers : GetReturn(p)
    \/ SnapLock
    \/ SnapMarshal
    \/ \E ok \in BOOLEAN : SnapCreateTemp(ok)
    \/ \E ok \in BOOLEAN : SnapWrite(ok)
    \/ \E ok \in BOOLEAN : SnapClose(ok)
    \/ \E ok \in BOOLEAN : SnapRemove(ok)
    \/ \E ok \in BOOLEAN : SnapRename(ok)
    \/ Kill

BootSpec == StartInit /\ [][BootNext]_vars

\* ======================================================== the HTTP layer
\* ------------------------------------------------------ encoding/base64
\* base64.StdEncoding over strings as sequences of characters and decoded
\* data as sequences of bytes.
B64Alphabet ==
    <<"A", "B", "C", "D", "E", "F", "G", "H", "I", "J", "K", "L", "M",
      "N", "O", "P", "Q", "R", "S", "T", "U", "V", "W", "X", "Y", "Z",
      "a", "b", "c", "d", "e", "f", "g", "h", "i", "j", "k", "l", "m",
      "n", "o", "p", "q", "r", "s", "t", "u", "v", "w", "x", "y", "z",
      "0", "1", "2", "3", "4", "5", "6", "7", "8", "9", "+", "/">>
Pad == "="

IsB64(ch) == \E i \in 1..64 : B64Alphabet[i] = ch
B64Val(ch) == CHOOSE v \in 0..63 : B64Alphabet[v + 1] = ch

\* One quantum of four characters, the last one or two of which may be
\* padding.
B64Quantum(q) ==
    LET v(i) == IF q[i] = Pad THEN 0 ELSE B64Val(q[i])
        n == v(1) * 262144 + v(2) * 4096 + v(3) * 64 + v(4)
        all == <<n \div 65536, (n \div 256) % 256, n % 256>>
    IN IF q[3] = Pad THEN SubSeq(all, 1, 1)
       ELSE IF q[4] = Pad THEN SubSeq(all, 1, 2)
       ELSE all

B64WellFormed(s) ==
    /\ Len(s) % 4 = 0
    /\ \A i \in DOMAIN s :
          \/ IsB64(s[i])
          \/ /\ s[i] = Pad
             /\ i >= 3
             /\ i >= Len(s) - 1
             /\ i = Len(s) - 1 => s[Len(s)] = Pad

RECURSIVE B64Bytes(_)
B64Bytes(s) ==
    IF s = <<>> THEN <<>>
    ELSE B64Quantum(SubSeq(s, 1, 4)) \o B64Bytes(SubSeq(s, 5, Len(s)))

\* base64.StdEncoding.DecodeString
DecodeString(s) ==
    IF B64WellFormed(s) THEN [ok |-> TRUE, bytes |-> B64Bytes(s)]
    ELSE [ok |-> FALSE, bytes |-> <<>>]

\* base64.StdEncoding.EncodeToString
RECURSIVE EncodeToString(_)
EncodeToString(b) ==
    IF b = <<>> THEN <<>>
    ELSE LET byte(i) == IF i <= Len(b) THEN b[i] ELSE 0
             n == byte(1) * 65536 + byte(2) * 256 + byte(3)
             c1 == B64Alphabet[(n \div 262144) + 1]
             c2 == B64Alphabet[((n \div 4096) % 64) + 1]
             c3 == B64Alphabet[((n \div 64) % 64) + 1]
             c4 == B64Alphabet[(n % 64) + 1]
             q == IF Len(b) = 1 THEN <<c1, c2, Pad, Pad>>
                  ELSE IF Len(b) = 2 THEN <<c1, c2, c3, Pad>>
                  ELSE <<c1, c2, c3, c4>>
         IN q \o EncodeToString(SubSeq(b, 4, Len(b)))

\* ----------------------------------------------------------- requests
\* The byte ':'.
Colon == 58
\* strings.SplitN(s, ":", 2)
SplitN(s) ==
    IF \E i \in DOMAIN s : s[i] = Colon
    THEN LET c == CHOOSE i \in DOMAIN s : s[i] = Colon /\ \A j \in 1..(i - 1) : s[j] # Colon
         IN <<SubSeq(s, 1, c - 1), SubSeq(s, c + 1, Len(s))>>
    ELSE <<s>>

\* strings.HasPrefix
HasPrefix(s, prefix) == Len(s) >= Len(prefix) /\ SubSeq(s, 1, Len(prefix)) = prefix

BasicPrefix == <<"B", "a", "s", "i", "c", " ">>

\* The passwords a server is configured with: none, "s" and "a:b".
Passwords == {NoPassword, <<115>>, <<97, Colon, 98>>}

\* Authorization headers: absent; "Basic " and the encoding of "u:s",
\* "u:x", "s", ":s", "u:a:b" and "u:"; a payload of the wrong length and one
\* with padding inside; the prefix in lower case; another scheme.
Headers ==
    {<<>>,
     BasicPrefix \o <<"d", "T", "p", "z">>,
     BasicPrefix \o <<"d", "T", "p", "4">>,
     BasicPrefix \o <<"c", "w", "=", "=">>,
     BasicPrefix \o <<"O", "n", "M", "=">>,
     BasicPrefix \o <<"d", "T", "p", "h", "O", "m", "I", "=">>,
     BasicPrefix \o <<"d", "T", "o", "=">>,
     BasicPrefix \o <<"d", "T", "p">>,
     BasicPrefix \o <<"d", "=", "p", "z">>,
     <<"b", "a", "s", "i", "c", " ">> \o <<"d", "T", "p", "z">>,
     <<"B", "e", "a", "r", "e", "r", " ">> \o <<"d", "T", "p", "z">>}

\* Request bodies: one that is not JSON, and the JSON of a record.
Malformed == [kind |-> "malformed", json |-> EncodeBookmark(ZeroBookmark)]
JsonBody(b) == [kind |-> "json", json |-> EncodeBookmark(b)]
\* A record whose name is empty.
BmNoName == Bookmark(<<"u">>, <<>>, <<>>, NilTags)
Bodies == {Malformed, JsonBody(BmPlain), JsonBody(BmNoName)}

\* r.PathValue("id")
PathIds == {<<"1">>, <<"x">>}
\* strconv.Atoi fails on it
AtoiFails(s) == s = <<>> \/ \E i \in DOMAIN s : \A d \in DOMAIN Digits : Digits[d] # s[i]

Request(method, path, id, auth, body) ==
    [method |-> method, path |-> path, id |-> id, auth |-> auth, body |-> body]

Requests ==
    {Request("GET", "/health", <<>>, a, NoBody) : a \in Headers}
    \cup {Request("GET", "/bookmarks", <<>>, a, NoBody) : a \in Headers}
    \cup {Request("GET", "/bookmarks/{id}", i, a, NoBody) : i \in PathIds, a \in Headers}
    \cup {Request("POST", "/bookmarks", <<>>, a, b) : a \in Headers, b \in Bodies}
    \cup {Request("PUT", "/bookmarks/{id}", i, a, b) : i \in PathIds, a \in Headers, b \in Bodies}
    \cup {Request("DELETE", "/bookmarks/{id}", i, a, NoBody) : i \in PathIds, a \in Headers}

\* ------------------------------------------------- BasicAuthMiddleware
\* What the middleware does with a request: 0 for next.ServeHTTP(w, r),
\* 401 for requireAuth(w).
BasicAuthMiddlewareAnyBasic(password, r) ==
    IF r.path = "/health" THEN 0
    ELSE IF r.auth = <<>> THEN 401
    ELSE IF ~HasPrefix(r.auth, BasicPrefix) THEN 401
    ELSE 0

BasicAuthMiddleware(password, r) ==
    IF r.path = "/health" THEN 0
    ELSE IF r.auth = <<>> THEN 401
    ELSE IF ~HasPrefix(r.auth, BasicPrefix) THEN 401
    ELSE LET decoded == DecodeString(SubSeq(r.auth, Len(BasicPrefix) + 1, Len(r.auth)))
         IN IF ~decoded.ok THEN 401
            ELSE LET credentials == SplitN(decoded.bytes)
                 IN IF Len(credentials) # 2 THEN 401
                    ELSE IF credentials[2] # password THEN 401
                    ELSE 0

\* The chain in front of the mux: the middleware is installed when a
\* password is configured.
SetupRoutes(r) ==
    IF config.AuthPassword = NoPassword THEN 0
    ELSE BasicAuthMiddleware(config.AuthPassword, r)

\* The mux: the handler a method and a path are routed to.
Route(r) ==
    IF r.method = "GET" /\ r.path = "/health" THEN "HealthHandler"
    ELSE IF r.method = "GET" /\ r.path = "/bookmarks" THEN "GetBookmarksHandler"
    ELSE IF r.method = "GET" /\ r.path = "/bookmarks/{id}" THEN "GetBookmarksByIDHandler"
    ELSE IF r.method = "POST" /\ r.path = "/bookmarks" THEN "PostBookmarksHandler"
    ELSE IF r.method = "PUT" /\ r.path = "/bookmarks/{id}" THEN "PutBookmarksHandler"
    ELSE IF r.method = "DELETE" /\ r.path = "/bookmarks/{id}" THEN "DeleteBookmarksHandler"
    ELSE None

\* ------------------------------------------- Store calls in one step
\* A call of a Store operation from its Lock to its return; the mutex
\* lets no other operation in between.
StoreAdd(b) ==
    /\ IdxCounter' = IdxCounter + 1
    /\ Bookmarks' = MapPut(Bookmarks, IdxCounter + 1, b)
    /\ lastWrite' = MapPut(lastWrite, IdxCounter + 1, b)
    /\ log' = Append(log, [op |-> "Add", id |-> IdxCounter + 1])
    /\ fresh' = FALSE
    /\ UNCHANGED alias

StoreUpdate(id, b) ==
    /\ IF id \in DOMAIN Bookmarks
       THEN /\ Bookmarks' = MapPut(Bookmarks, id, b)
            /\ lastWrite' = MapPut(lastWrite, id, b)
            /\ alias' = Unshare(id)
       ELSE UNCHANGED <<Bookmarks, held>>
    /\ fresh' = FALSE
    /\ UNCHANGED <<IdxCounter, log>>

StoreDelete(id) ==
    /\ IF id \in DOMAIN Bookmarks
       THEN /\ Bookmarks' = MapDelete(Bookmarks, id)
            /\ lastWrite' = MapDelete(lastWrite, id)
            /\ alias' = Unshare(id)
            /\ log' = Append(log, [op |-> "Delete", id |-> id])
       ELSE UNCHANGED <<Bookmarks, log, held>>
    /\ fresh' = FALSE
    /\ UNCHANGED IdxCounter

\* Get and List
StoreRead ==
    /\ fresh' = FALSE
    /\ UNCHANGED <<mem, hist, held>>

NoStoreCall == UNCHANGED <<mem, hist, fresh, held>>

\* ------------------------------------------------------- the handlers
\* The server serves and no goroutine is inside a Store operation.
Quiet == phase = "serving" /\ \A p \in Procs : pc[p] = "idle"

around == <<writer, readers, pc, local, disk, phase, exit, crash, closeCalls,
            closeLog, config, client>>

Respond(r, handler, status) ==
    http' = [req |-> r, handler |-> handler, status |-> status]

\* The request passed the chain and the mux routes it to the handler.
Reaches(r, handler) == Quiet /\ Route(r) = handler /\ SetupRoutes(r) = 0

\* requireAuth: the middleware answers 401 and does not call next.
requireAuth(r) ==
    /\ Quiet
    /\ SetupRoutes(r) = 401
    /\ Respond(r, None, 401)
    /\ NoStoreCall
    /\ UNCHANGED around

HealthHandler(r) ==
    /\ Reaches(r, "HealthHandler")
    /\ Respond(r, "HealthHandler", 200)
    /\ NoStoreCall
    /\ UNCHANGED around

\* GetBookmarksHandler without the frame: what it does to the Store and
\* what it answers.
GetBookmarks(r) ==
    /\ Reaches(r, "GetBookmarksHandler")
    /\ Respond(r, "GetBookmarksHandler", 200)
    /\ StoreRead

GetBookmarksHandler(r) ==
    /\ GetBookmarks(r)
    /\ UNCHANGED around

GetBookmarksByIDHandler(r) ==
    /\ Reaches(r, "GetBookmarksByIDHandler")
    /\ IF AtoiFails(r.id)
       THEN /\ Respond(r, "GetBookmarksByIDHandler", 400)
            /\ NoStoreCall
       ELSE /\ Respond(r, "GetBookmarksByIDHandler",
                       IF Atoi(r.id) \in DOMAIN Bookmarks THEN 200 ELSE 404)
            /\ StoreRead
    /\ UNCHANGED around

\* PostBookmarksHandler without the frame.
PostBookmarks(r) ==
    /\ Reaches(r, "PostBookmarksHandler")
    /\ IF r.body.kind # "json"
       THEN /\ Respond(r, "PostBookmarksHandler", 400)
            /\ NoStoreCall
       ELSE IF DecodeBookmark(r.body.json).Name = <<>>
       THEN /\ Respond(r, "PostBookmarksHandler", 400)
            /\ NoStoreCall
       ELSE /\ IdxCounter < MaxId
            /\ StoreAdd(DecodeBookmark(r.body.json))
            /\ Respond(r, "PostBookmarksHandler", 200)

PostBookmarksHandler(r) ==
    /\ PostBookmarks(r)
    /\ UNCHANGED around

PutBookmarksHandler(r) ==
    /\ Reaches(r, "PutBookmarksHandler")
    /\ IF AtoiFails(r.id) \/ r.body.kind # "json"
       THEN /\ Respond(r, "PutBookmarksHandler", 400)
            /\ NoStoreCall
       ELSE /\ StoreUpdate(Atoi(r.id), DecodeBookmark(r.body.json))
            /\ Respond(r, "PutBookmarksHandler",
                       IF Atoi(r.id) \in DOMAIN Bookmarks THEN 200 ELSE 404)
    /\ UNCHANGED around

DeleteBookmarksHandler(r) ==
    /\ Reaches(r, "DeleteBookmarksHandler")
    /\ IF AtoiFails(r.id)
       THEN /\ Respond(r, "DeleteBookmarksHandler", 400)
            /\ NoStoreCall
       ELSE /\ StoreDelete(Atoi(r.id))
            /\ Respond(r, "DeleteBookmarksHandler",
                       IF Atoi(r.id) \in DOMAIN Bookmarks THEN 200 ELSE 404)
    /\ UNCHANGED around

\* A server with or without a password, and the requests that arrive.
HttpInit ==
    /\ Bookmarks = EmptyMap
    /\ IdxCounter = 0
    /\ writer = None
    /\ readers = {}
    /\ pc = [p \in Procs |-> "idle"]
    /\ local = [p \in Procs |-> NoLocal]
    /\ buf = AbsentFile
    /\ file = EmptyFile
    /\ tmp = AbsentFile
    /\ phase = "serving"
    /\ exit = None
    /\ closeCalls = 0
    /\ closeLog = <<>>
    /\ log = <<>>
    /\ snap = NoSnap
    /\ crash = NoCrash
    /\ fresh = TRUE
    /\ alias = {}
    /\ lastWrite = EmptyMap
    /\ config \in {[DefaultConfig EXCEPT !.AuthPassword = pw] : pw \in Passwords}
    /\ http = NoHttp
    /\ client = NoClient

HttpNext ==
    \/ \E r \in Requests : requireAuth(r)
    \/ \E r \in Requests : HealthHandler(r)
    \/ \E r \in Requests : GetBookmarksHandler(r)
    \/ \E r \in Requests : GetBookmarksByIDHandler(r)
    \/ \E r \in Requests : PostBookmarksHandler(r)
    \/ \E r \in Requests : PutBookmarksHandler(r)
    \/ \E r \in Requests : DeleteBookmarksHandler(r)

HttpSpec == HttpInit /\ [][HttpNext]_vars

\* ============================================================ the client
\* RetryAttempts is at most MaxRetry; Config.Validate refuses a negative one.
MaxRetry == 2
RetrySettings == 0..MaxRetry

\* The calls: Client.Add (POST /bookmarks, expects 201 Created) and
\* Client.List (GET /bookmarks, expects 200 OK).
ClientOps == {"Add", "List"}
ExpectedStatus(op) == IF op = "Add" THEN 201 ELSE 200
ClientRequest(op) ==
    IF op = "Add" THEN Request("POST", "/bookmarks", <<>>, <<>>, JsonBody(BmPlain))
    ELSE Request("GET", "/bookmarks", <<>>, <<>>, NoBody)

\* The errors of doRequest.
ClientError(status) == [kind |-> "ClientError", StatusCode |-> status]
RequestFailed == [kind |-> "request failed", StatusCode |-> 0]
DecodeFailed == [kind |-> "failed to decode response", StatusCode |-> 0]

\* What c.http.Do(req) gives the client: an error, or a response with a
\* status and a body that json decodes into result or does not.
TransportError == [kind |-> "error", status |-> 0, decodable |-> FALSE]
Response(status, decodable) == [kind |-> "response", status |-> status, decodable |-> decodable]
\* The statuses something between the client and the handler answers with
\* (a proxy, a rate limiter, a middleware).
GatewayStatuses == {400, 429, 503}
\* The answer of the handler the request reached: PostBookmarksHandler
\* writes the id as plain text, GetBookmarksHandler the JSON of the map.
ServerResponse(op, status) == Response(status, op = "List")

\* doRequest: the error it returns for what the transport gave.
doRequest(op, reply) ==
    IF reply.kind = "error" THEN RequestFailed
    ELSE IF reply.status # ExpectedStatus(op) THEN ClientError(reply.status)
    ELSE IF ~reply.decodable THEN DecodeFailed
    ELSE Nil

\* doWithRetry: the loop condition attempt <= c.config.RetryAttempts.
ContinueBelow(attempt, retryAttempts) == attempt < retryAttempts
Continue(attempt, retryAttempts) == attempt <= retryAttempts

\* doWithRetry: "Don't retry on client errors (4xx except 429)".
NoRetryNever(err) == FALSE
NoRetry(err) ==
    /\ err.kind = "ClientError"
    /\ err.StatusCode >= 400 /\ err.StatusCode < 500 /\ err.StatusCode # 429

beside == <<writer, readers, pc, local, disk, phase, exit, crash, closeCalls,
            closeLog, config>>

\* Client.Add or Client.List calls doWithRetry.
ClientCall(op) ==
    /\ client.state = "idle"
    /\ client' = [client EXCEPT !.state = IF Continue(0, client.RetryAttempts)
                                           THEN "running" ELSE "returned",
                                 !.op = op, !.attempt = 0, !.trace = <<>>,
                                 !.err = Nil, !.created = 0]
    /\ NoStoreCall
    /\ UNCHANGED <<http, beside>>

\* The rest of one round of the loop after doRequest returned err.
AfterRequest(err, added) ==
    client' = [client EXCEPT
                  !.trace = Append(@, err),
                  !.created = @ + added,
                  !.err = err,
                  !.attempt = IF err = Nil \/ NoRetry(err) THEN @ ELSE @ + 1,
                  !.state = IF err = Nil \/ NoRetry(err) THEN "returned"
                            ELSE IF Continue(client.attempt + 1, client.RetryAttempts)
                            THEN "running" ELSE "returned"]

\* One round of the loop whose request does not reach a handler: the
\* transport fails, or something in between answers.
ClientAttemptUnserved(reply) ==
    /\ client.state = "running"
    /\ AfterRequest(doRequest(client.op, reply), 0)
    /\ NoStoreCall
    /\ UNCHANGED <<http, beside>>

\* One round of the loop whose request the server handles. The client gets
\* the handler's response (delivered), or the response is lost or replaced
\* on the way back.
ClientAttemptServed(delivered, reply) ==
    /\ client.state = "running"
    /\ IF client.op = "Add"
       THEN PostBookmarks(ClientRequest(client.op))
       ELSE GetBookmarks(ClientRequest(client.op))
    /\ AfterRequest(doRequest(client.op,
                              IF delivered
                              THEN ServerResponse(client.op, http'.status)
                              ELSE reply),
                    IF client.op = "Add" THEN 1 ELSE 0)
    /\ UNCHANGED beside

\* The caller is done with the result; the Client serves the next call.
ClientDone ==
    /\ client.state = "returned"
    /\ client' = [NoClient EXCEPT !.RetryAttempts = client.RetryAttempts]
    /\ NoStoreCall
    /\ UNCHANGED <<http, beside>>

Replies == {TransportError} \cup {Response(st, TRUE) : st \in GatewayStatuses}

ClientInit ==
    /\ Bookmarks = EmptyMap
    /\ IdxCounter = 0
    /\ writer = None
    /\ readers = {}
    /\ pc = [p \in Procs |-> "idle"]
    /\ local = [p \in Procs |-> NoLocal]
    /\ buf = AbsentFile
    /\ file = EmptyFile
    /\ tmp = AbsentFile
    /\ phase = "serving"
    /\ exit = None
    /\ closeCalls = 0
    /\ closeLog = <<>>
    /\ log = <<>>
    /\ snap = NoSnap
    /\ crash = NoCrash
    /\ fresh = TRUE
    /\ alias = {}
    /\ lastWrite = EmptyMap
    /\ config = DefaultConfig
    /\ http = NoHttp
    /\ client \in {[NoClient EXCEPT !.RetryAttempts = n] : n \in RetrySettings}

ClientNext ==
    \/ \E op \in ClientOps : ClientCall(op)
    \/ \E reply \in Replies : ClientAttemptUnserved(reply)
    \/ \E delivered \in BOOLEAN, reply \in Replies : ClientAttemptServed(delivered, reply)
    \/ ClientDone

ClientSpec == ClientInit /\ [][ClientNext]_vars

\* ================================================ periodic persistence
\* The server in steady state: the handlers mutate the Store while
\* storeSnapshotLoop calls SaveSnapshot on every tick; no shutdown, no crash.
LiveNext ==
    \/ \E p \in Handlers, b \in {BmPlain} : AddLock(p, b)
    \/ \E p \in Handlers : AddIncrement(p)
    \/ \E p \in Handlers : AddInsert(p)
    \/ \E p \in Handlers : AddReturn(p)
    \/ \E p \in Handlers, id \in 1..MaxId, b \in {BmPlain} : UpdateLock(p, id, b)
    \/ \E p \in Handlers : UpdateBody(p)
    \/ \E p \in Handlers : UpdateReturn(p)
    \/ \E p \in Handlers, id \in 1..MaxId : DeleteLock(p, id)
    \/ \E p \in Handlers : DeleteBody(p)
    \/ \E p \in Handlers : DeleteReturn(p)
    \/ SnapLock
    \/ SnapMarshal
    \/ \E ok \in BOOLEAN : SnapCreateTemp(ok)
    \/ \E ok \in BOOLEAN : SnapWrite(ok)
    \/ \E ok \in BOOLEAN : SnapClose(ok)
    \/ \E ok \in BOOLEAN : SnapRemove(ok)
    \/ \E ok \in BOOLEAN : SnapRename(ok)

\* A goroutine inside a Store operation keeps running until it returns.
\* The ticker fires every second and sync.RWMutex hands the lock to a
\* waiting Lock (no writer starves), so the loop gets the lock whenever it
\* is free again and again. The filesystem steps of SaveSnapshot do not
\* fail forever.
LiveFairness ==
    /\ \A p \in Handlers :
          /\ WF_vars(AddIncrement(p)) /\ WF_vars(AddInsert(p)) /\ WF_vars(AddReturn(p))
          /\ WF_vars(UpdateBody(p)) /\ WF_vars(UpdateReturn(p))
          /\ WF_vars(DeleteBody(p)) /\ WF_vars(DeleteReturn(p))
    /\ SF_vars(SnapLock)
    /\ WF_vars(SnapMarshal)
    /\ SF_vars(SnapCreateTemp(TRUE))
    /\ SF_vars(SnapWrite(TRUE))
    /\ SF_vars(SnapClose(TRUE))
    /\ SF_vars(SnapRemove(TRUE))
    /\ SF_vars(SnapRename(TRUE))

LiveSpec == Init /\ [][LiveNext]_vars /\ LiveFairness

\* ====================================================== the web package
\* web/server.go keeps its records in the package-level map
\* internal.Bookmarks guarded by internal.BookmarksMutex. Here Bookmarks is
\* that map, writer and readers are that mutex, pc and local are the
\* positions and locals of the handler goroutines; IdxCounter, the files and
\* the snapshot loop play no part.
webBodies == {Malformed, JsonBody(BmPlain), JsonBody(BmNoName)}
\* r.PathValue("id"): NewMux registers "DELETE /bookmarks" without {id}, so
\* for DELETE the mux only ever delivers the empty string.
webPathIds == {Itoa(i) : i \in 1..MaxId} \cup {<<>>, <<"x">>}

\* The Go runtime aborts the process when it detects a map written by one
\* goroutine while another reads or writes it.
FatalMapAccess == "fatal error: concurrent map writes"

webRest == <<IdxCounter, disk, crash, closeCalls, closeLog, config, net, hist, held, fresh>>
webServing == phase = "serving"
StillServing == UNCHANGED <<phase, exit>>

\* The handlers positioned at an access to the map.
MapAccess == {"web_get", "web_get_by_id", "web_post_len", "web_post_insert",
              "web_put", "web_delete"}
Racing(p) == \E q \in Handlers \ {p} : pc[q] \in MapAccess

\* http.Error(w, ..., 400) before any lock was taken: the handler returns.
webBadRequest(p) ==
    /\ Goto(p, "web_respond")
    /\ local' = [local EXCEPT ![p] = [NoLocal EXCEPT !.err = "400"]]
    /\ UNCHANGED <<writer, readers>>

webRLock(p, label, l) ==
    /\ CanRLock
    /\ readers' = readers \cup {p}
    /\ UNCHANGED writer
    /\ Goto(p, label)
    /\ local' = [local EXCEPT ![p] = l]

webLock(p, label, l) ==
    /\ CanLock
    /\ LockedBy(p)
    /\ Goto(p, label)
    /\ local' = [local EXCEPT ![p] = l]

\* What json.NewDecoder(r.Body).Decode(&bookmark) will give for the body.
webDecoded(body) ==
    [NoLocal EXCEPT !.bookmark = DecodeBookmark(body.json),
                    !.err = IF body.kind = "json" THEN None ELSE "400"]

\* getBookmarksHandler
webGetLock(p) ==
    /\ p \in Handlers /\ Idle(p)
    /\ webRLock(p, "web_get", NoLocal)
    /\ UNCHANGED <<Bookmarks, webRest>> /\ StillServing

webGet(p) ==
    /\ pc[p] = "web_get" /\ webServing
    /\ local' = [local EXCEPT ![p].list = Bookmarks]
    /\ Goto(p, "web_return")
    /\ UNCHANGED <<Bookmarks, writer, readers, webRest>> /\ StillServing

\* getBookmarksByIdHandler
webGetByIdLock(p, id) ==
    /\ p \in Handlers /\ Idle(p)
    /\ IF AtoiFails(id)
       THEN webBadRequest(p)
       ELSE webRLock(p, "web_get_by_id", [NoLocal EXCEPT !.id = Atoi(id)])
    /\ UNCHANGED <<Bookmarks, webRest>> /\ StillServing

webGetById(p) ==
    /\ pc[p] = "web_get_by_id" /\ webServing
    /\ local' = [local EXCEPT ![p].err = IF Lookup(Bookmarks, local[p].id).err = None
                                           THEN None ELSE "404",
                              ![p].bookmark = Lookup(Bookmarks, local[p].id).bookmark]
    /\ Goto(p, "web_return")
    /\ UNCHANGED <<Bookmarks, writer, readers, webRest>> /\ StillServing

\* postBookmarksHandler: BookmarksMutex.RLock()
webPostLock(p, body) ==
    /\ p \in Handlers /\ Idle(p)
    /\ Cardinality(DOMAIN Bookmarks) < MaxId
    /\ webRLock(p, "web_post_decode", webDecoded(body))
    /\ UNCHANGED <<Bookmarks, webRest>> /\ StillServing

\* the decoding of the body and the check of the name
webPostDecode(p) ==
    /\ pc[p] = "web_post_decode" /\ webServing
    /\ IF local[p].err # None \/ local[p].bookmark.Name = <<>>
       THEN /\ local' = [local EXCEPT ![p].err = "400"]
            /\ Goto(p, "web_return")
       ELSE /\ Goto(p, "web_post_len")
            /\ UNCHANGED local
    /\ UNCHANGED <<Bookmarks, writer, readers, webRest>> /\ StillServing

\* id := len(internal.Bookmarks) + 1
webPostLen(p) ==
    /\ pc[p] = "web_post_len" /\ webServing
    /\ local' = [local EXCEPT ![p].id = Cardinality(DOMAIN Bookmarks) + 1]
    /\ Goto(p, "web_post_insert")
    /\ UNCHANGED <<Bookmarks, writer, readers, webRest>> /\ StillServing

\* internal.Bookmarks[id] = bookmark. When another handler is at an access
\* to the map the runtime may detect it and abort the process.
webPostInsert(p, detected) ==
    /\ pc[p] = "web_post_insert" /\ webServing
    /\ IF detected
       THEN /\ Racing(p)
            /\ phase' = "down"
            /\ exit' = FatalMapAccess
            /\ UNCHANGED <<Bookmarks, pc>>
       ELSE /\ Bookmarks' = MapPut(Bookmarks, local[p].id, local[p].bookmark)
            /\ Goto(p, "web_return")
            /\ StillServing
    /\ UNCHANGED <<local, writer, readers, webRest>>

\* putBookmarksHandler
webPutLock(p, id, body) ==
    /\ p \in Handlers /\ Idle(p)
    /\ IF AtoiFails(id)
       THEN webBadRequest(p)
       ELSE webLock(p, "web_put", [webDecoded(body) EXCEPT !.id = Atoi(id)])
    /\ UNCHANGED <<Bookmarks, webRest>> /\ StillServing

webPut(p) ==
    /\ pc[p] = "web_put" /\ webServing
    /\ IF local[p].err # None
       THEN UNCHANGED Bookmarks
       ELSE Bookmarks' = MapPut(Bookmarks, local[p].id, local[p].bookmark)
    /\ Goto(p, "web_return")
    /\ UNCHANGED <<local, writer, readers, webRest>> /\ StillServing

\* deleteBookmarksHandler
webDeleteLock(p, id) ==
    /\ p \in Handlers /\ Idle(p)
    /\ IF AtoiFails(id)
       THEN webBadRequest(p)
       ELSE webLock(p, "web_delete", [NoLocal EXCEPT !.id = Atoi(id)])
    /\ UNCHANGED <<Bookmarks, webRest>> /\ StillServing

webDelete(p) ==
    /\ pc[p] = "web_delete" /\ webServing
    /\ Bookmarks' = MapDelete(Bookmarks, local[p].id)
    /\ Goto(p, "web_return")
    /\ UNCHANGED <<local, writer, readers, webRest>> /\ StillServing

\* The handler returns; its deferred RUnlock or Unlock runs.
webReturn(p) ==
    /\ pc[p] = "web_return" /\ webServing
    /\ Unlock(p)
    /\ Goto(p, "idle")
    /\ local' = [local EXCEPT ![p] = NoLocal]
    /\ UNCHANGED <<Bookmarks, webRest>> /\ StillServing

\* The handler returns after http.Error, holding no lock.
webRespond(p) ==
    /\ pc[p] = "web_respond" /\ webServing
    /\ Goto(p, "idle")
    /\ local' = [local EXCEPT ![p] = NoLocal]
    /\ UNCHANGED <<Bookmarks, writer, readers, webRest>> /\ StillServing

\* http.ListenAndServe runs every request of NewMux in its own goroutine.
WebNext ==
    \/ \E p \in Handlers : webGetLock(p)
    \/ \E p \in Handlers : webGet(p)
    \/ \E p \in Handlers, id \in webPathIds : webGetByIdLock(p, id)
    \/ \E p \in Handlers : webGetById(p)
    \/ \E p \in Handlers, body \in webBodies : webPostLock(p, body)
    \/ \E p \in Handlers : webPostDecode(p)
    \/ \E p \in Handlers : webPostLen(p)
    \/ \E p \in Handlers, detected \in BOOLEAN : webPostInsert(p, detected)
    \/ \E p \in Handlers, id \in webPathIds, body \in webBodies : webPutLock(p, id, body)
    \/ \E p \in Handlers : webPut(p)
    \/ \E p \in Handlers, id \in webPathIds : webDeleteLock(p, id)
    \/ \E p \in Handlers : webDelete(p)
    \/ \E p \in Handlers : webReturn(p)
    \/ \E p \in Handlers : webRespond(p)

WebSpec == Init /\ [][WebNext]_vars

\* ================================================================ claims

IsAdd(e) == e.op = "Add"
\* the ids returned by Add on this Store, in the order the calls held the lock
Issued == [i \in DOMAIN SelectSeq(log, IsAdd) |-> SelectSeq(log, IsAdd)[i].id]

ValidBookmark(b) ==
    /\ ValidUTF8(b.Url) /\ ValidUTF8(b.Name) /\ ValidUTF8(b.Description)
    /\ \A i \in DOMAIN b.Tags.elems : ValidUTF8(b.Tags.elems[i])
ValidStore(m) == \A id \in DOMAIN m : ValidBookmark(m[id])

\* What a process starting now would load from the backing file.
Loaded(f) == NewStore(IF Exists(f) THEN f ELSE EmptyFile)

\* C1: the ids returned by the Add calls on one Store, in the order the calls
\* took the write lock, go up by exactly 1 each time, and none is returned twice.
C1_AddIdsIncreaseByOne ==
    /\ \A i \in 1..(Len(Issued) - 1) : Issued[i + 1] = Issued[i] + 1
    /\ \A i, j \in DOMAIN Issued : i # j => Issued[i] # Issued[j]

\* Two Adds have returned on this Store.
C1_Witness == Len(Issued) >= 2

\* C2: once Delete(id) has succeeded, no later Add on that Store returns id.
C2_DeletedIdNeverReissued ==
    \A i, j \in DOMAIN log :
        (i < j /\ log[i].op = "Delete" /\ log[j].op = "Add") => log[j].id # log[i].id

\* An Add has returned after a Delete had succeeded.
C2_Witness ==
    \E i, j \in DOMAIN log : i < j /\ log[i].op = "Delete" /\ log[j].op = "Add"

\* C3: after every SaveSnapshot call, successful or failed, the backing file
\* holds the content it had before the call or the complete new serialization;
\* it is never missing or partially written.
C3_SnapshotLeavesFileIntact ==
    snap.state \in {"ok", "failed"} => snap.intact

\* C4: when the process ends at any step of SaveSnapshot, the backing file
\* found at the next startup is the pre-snapshot content or the fully written
\* new content, and it decodes.
C4_CrashLeavesFileIntact ==
    (phase = "down" /\ crash.step # "idle") => (crash.intact /\ Loaded(file).ok)

\* C5 (as claimed): a Store reloaded after a successful SaveSnapshot has the
\* collection and counter the original had at the time of the snapshot.
C5_RoundTripAnyRecord ==
    (phase = "serving" /\ fresh /\ snap.state = "ok")
        => (Bookmarks = snap.bookmarks /\ IdxCounter = snap.counter)

\* C5 (amended): the round trip holds when every string of every record in the
\* snapshot is valid UTF-8.
C5_RoundTripValidUTF8 ==
    (phase = "serving" /\ fresh /\ snap.state = "ok" /\ ValidStore(snap.bookmarks))
        => (Bookmarks = snap.bookmarks /\ IdxCounter = snap.counter)

\* A restarted process holds a reloaded, non-empty, valid collection from
\* which a record had been deleted before the snapshot.
C5_Witness ==
    /\ phase = "serving" /\ fresh /\ snap.state = "ok"
    /\ ValidStore(snap.bookmarks)
    /\ Bookmarks # EmptyMap
    /\ snap.counter > Cardinality(DOMAIN snap.bookmarks)

\* C6: every identifier in the collection is at most IdxCounter.
C6_IdsAtMostCounter ==
    \A id \in DOMAIN Bookmarks : id <= IdxCounter

\* A reloaded collection holds the latest identifier handed out.
C6_Witness ==
    phase = "serving" /\ fresh /\ IdxCounter > 0 /\ IdxCounter \in DOMAIN Bookmarks

\* C7 (as claimed): IdxCounter never decreases, restarts included.
C7_CounterNeverDecreases ==
    [][IdxCounter' >= IdxCounter]_vars

\* C7 (amended): IdxCounter never decreases while a process runs, and a
\* restart sets it to the counter stored in the backing file (0 when the file
\* is absent or empty).
C7_CounterMonotoneWhileRunning ==
    [][/\ phase = "serving" => IdxCounter' >= IdxCounter
       /\ (phase = "down" /\ phase' = "serving") => IdxCounter' = file.idx_counter]_vars

\* A restart has restored a positive counter that is past every stored id.
C7_Witness ==
    /\ phase = "serving" /\ fresh /\ IdxCounter > 0
    /\ \A id \in DOMAIN Bookmarks : id < IdxCounter

\* C8: once a shutdown through Server.Close has ended the process, the backing
\* file holds the state the Store had at exit.
C8_ShutdownIsDurable ==
    (phase = "down" /\ closeCalls > 0)
        => Loaded(file) = Loaded(Marshal(Bookmarks, IdxCounter))

\* C9: shutdown carries out its steps in order: stop the snapshot loop, force
\* one SaveSnapshot, then shut the HTTP server down.
C9_ShutdownStepsInOrder ==
    (phase = "down" /\ closeCalls > 0)
        => closeLog = <<"stop_snapshot_loop", "save_snapshot", "shutdown_http">>

\* C10: however often Server.Close is called, the forced snapshot runs exactly
\* once and no call ends in an error or panic.
C10_CloseIdempotent ==
    closeCalls > 0
        => /\ exit # "panic"
           /\ Cardinality({i \in DOMAIN closeLog : closeLog[i] = "save_snapshot"}) = 1

\* ------------------------------------------------ claims on the Store API
\* the goroutines inside a critical section of a writer, and of a reader
WriterSteps == {"add_increment", "add_insert", "add_return", "update",
                "update_return", "delete", "delete_return", "snap_marshal",
                "snap_create", "snap_write", "snap_close", "snap_remove",
                "snap_rename"}
ReaderSteps == {"get", "get_return", "list", "list_return"}
WritersInside == {p \in Procs : pc[p] \in WriterSteps}
ReadersInside == {p \in Procs : pc[p] \in ReaderSteps}

\* the ids Add has returned, and the ids Delete has removed, on this Store
Added == {log[i].id : i \in {j \in DOMAIN log : log[j].op = "Add"}}
Deleted == {log[i].id : i \in {j \in DOMAIN log : log[j].op = "Delete"}}

\* No mutation is part-way: the counter and the collection are those of the
\* Adds and Deletes that have returned.
Committed ==
    /\ WritersInside = {}
    /\ IdxCounter = Cardinality(Added)
    /\ DOMAIN Bookmarks = Added \ Deleted

\* what Get hands to its caller
Result(p) == [err |-> local[p].err, bookmark |-> local[p].bookmark]

\* C11: the process exits only after a final snapshot attempt, whether the
\* shutdown was triggered by a signal or by a serving error.
C11_ExitAfterFinalSnapshot ==
    (phase = "down" /\ exit \in {"panic", "serve_error"})
        => \E i \in DOMAIN closeLog : closeLog[i] = "save_snapshot"

\* C12: a shutdown closes the network layer even when its forced snapshot
\* failed, and Server.Close returns (nil or the snapshot's error) to RunServe.
C12_ShutdownSurfacesSnapshotFailure ==
    (phase = "down" /\ closeCalls > 0)
        => /\ \E i \in DOMAIN closeLog : closeLog[i] = "shutdown_http"
           /\ exit \in {"close_ok", "close_error"}

\* C13: what the caller does to the value List returned (to the map, to its
\* records, to the elements of their Tags) never changes the Store, and what
\* the Store does after List returned never changes the returned value.
C13_ListResultIsolated ==
    [][/\ (pc' = pc /\ local' # local) => Bookmarks' = Bookmarks
       /\ \A p \in Handlers :
              (pc[p] = "holding" /\ pc'[p] = "holding" /\ pc' # pc)
                  => local'[p].list = local[p].list]_vars

\* C14: when Get or List hands back its result, the result is the content of
\* the Store at that instant, and no mutation is part-way at that instant.
C14_ReadsSeeCommittedState ==
    \A p \in Handlers :
        /\ pc[p] = "get_return"
               => (Committed /\ Result(p) = Lookup(Bookmarks, local[p].id))
        /\ pc[p] = "list_return"
               => (Committed /\ local[p].list = Bookmarks)

\* A Get has found a record on a Store that has seen Adds and a Delete.
C14_Witness ==
    /\ Deleted # {}
    /\ \E p \in Handlers : pc[p] = "get_return" /\ local[p].err = None

\* C15: at most one writer is inside its critical section, and while one is,
\* no reader is; readers may be inside together.
C15_LockDiscipline ==
    /\ Cardinality(WritersInside) <= 1
    /\ WritersInside # {} => ReadersInside = {}

\* Two readers are inside at the same time.
C15_Witness == Cardinality(ReadersInside) = 2

\* C16: on a record that was added and never deleted, no Update and no Get
\* returns an error, and Get returns the whole value of the writer that held
\* the lock last.
C16_ConcurrentUpdatesKeepRecordWhole ==
    \A p \in Handlers :
        /\ (pc[p] = "update_return" /\ local[p].id \in Added \ Deleted)
               => local[p].err = None
        /\ (pc[p] = "get_return" /\ local[p].id \in Added \ Deleted)
               => /\ local[p].err = None
                  /\ local[p].bookmark \in
                         {lastWrite[k] : k \in DOMAIN lastWrite \cap {local[p].id}}

\* A Get on the only record, with no Delete so far, has returned a value
\* that is not the zero record.
C16_Witness ==
    /\ Deleted = {} /\ Cardinality(Added) = 1
    /\ \E p \in Handlers :
           /\ pc[p] = "get_return" /\ local[p].id \in Added
           /\ local[p].bookmark \in Records

\* C17: Update and Delete on an id that is not in the collection return the
\* not-found error and leave the collection and IdxCounter as they were.
C17_NotFoundLeavesStoreUnchanged ==
    [][\A p \in Handlers :
          (/\ pc[p] \in {"update", "delete"}
           /\ pc'[p] # pc[p]
           /\ local[p].id \notin DOMAIN Bookmarks)
              => (/\ local'[p].err = NotFound
                  /\ Bookmarks' = Bookmarks
                  /\ IdxCounter' = IdxCounter)]_vars

\* An Update has failed with not-found on a Store that holds a record.
C17_Witness ==
    /\ Bookmarks # EmptyMap
    /\ \E p \in Handlers : pc[p] = "update_return" /\ local[p].err = NotFound

\* C18: a successful Update(id, r) puts r at id and changes nothing else: not
\* the set of ids, not the records at other ids, not IdxCounter.
C18_UpdateChangesOnlyItsRecord ==
    [][\A p \in Handlers :
          (pc[p] = "update" /\ pc'[p] = "update_return" /\ local'[p].err = None)
              => (/\ DOMAIN Bookmarks' = DOMAIN Bookmarks
                  /\ Bookmarks'[local[p].id] = local[p].bookmark
                  /\ \A k \in DOMAIN Bookmarks \ {local[p].id} :
                         Bookmarks'[k] = Bookmarks[k]
                  /\ IdxCounter' = IdxCounter)]_vars

\* An Update has succeeded on a Store holding two records that differ.
C18_Witness ==
    /\ \E p \in Handlers : pc[p] = "update_return" /\ local[p].err = None
    /\ \E j, k \in DOMAIN Bookmarks : Bookmarks[j] # Bookmarks[k]

\* C19: once Delete(id) has succeeded, every Get(id) fails with not-found and
\* no List contains id.
C19_DeletedStaysGone ==
    \A p \in Handlers :
        /\ (pc[p] = "get_return" /\ local[p].id \in Deleted)
               => local[p].err = NotFound
        /\ pc[p] = "list_return" => DOMAIN local[p].list \cap Deleted = {}

\* A Get on a deleted id has returned after a later Add had returned.
C19_Witness ==
    /\ \E p \in Handlers : pc[p] = "get_return" /\ local[p].id \in Deleted
    /\ \E i, j \in DOMAIN log : i < j /\ log[i].op = "Delete" /\ log[j].op = "Add"

\* C20: Get(id) returns the record written to id last: when Add(r) is about to
\* return id, and when a successful Update(id, r) is about to return, a Get
\* of that id yields r; and every Get returns the record written last.
C20_GetReturnsLastWritten ==
    \A p \in Handlers :
        /\ pc[p] = "add_return"
               => Lookup(Bookmarks, IdxCounter)
                      = [err |-> None, bookmark |-> local[p].bookmark]
        /\ (pc[p] = "update_return" /\ local[p].err = None)
               => Lookup(Bookmarks, local[p].id)
                      = [err |-> None, bookmark |-> local[p].bookmark]
        /\ pc[p] = "get_return" => Result(p) = Lookup(lastWrite, local[p].id)

\* A Get has returned the record at the id handed out last, and the Store
\* holds two records that differ.
C20_Witness ==
    /\ \E p \in Handlers :
           pc[p] = "get_return" /\ local[p].err = None /\ local[p].id = IdxCounter
    /\ \E j, k \in DOMAIN lastWrite : lastWrite[j] # lastWrite[k]

\* ------------------------------- claims on snapshots, startup and the loop
\* the Adds and the successful Deletes that have returned on this Store
NumAdds == Cardinality({i \in DOMAIN log : log[i].op = "Add"})
NumDeletes == Cardinality({i \in DOMAIN log : log[i].op = "Delete"})

\* C21: the map List returns has as many entries as Adds have returned minus
\* Deletes that have succeeded (n entries after n Adds and no Delete).
C21_ListCountsAddsMinusDeletes ==
    \A p \in Handlers :
        pc[p] = "list_return"
            => Cardinality(DOMAIN local[p].list) = NumAdds - NumDeletes

\* List has returned two entries after two Adds and no Delete.
C21_Witness ==
    /\ NumAdds = 2 /\ NumDeletes = 0
    /\ \E p \in Handlers :
           pc[p] = "list_return" /\ Cardinality(DOMAIN local[p].list) = 2

\* C22: no step of SaveSnapshot changes the collection or IdxCounter; a failed
\* call gives the lock back; and after a failed call Update, Delete and Get
\* fail only for an id that is not in the collection.
C22_SnapshotLeavesMemoryAlone ==
    [][/\ pc'[Loop] # pc[Loop]
           => (Bookmarks' = Bookmarks /\ IdxCounter' = IdxCounter)
       /\ (snap.state = "running" /\ snap'.state = "failed")
           => (writer' = None /\ readers' = {})
       /\ \A p \in Handlers :
              (/\ snap.state = "failed"
               /\ pc[p] \in {"update", "delete", "get"}
               /\ pc'[p] # pc[p])
                  => (local'[p].err = NotFound
                         <=> local[p].id \notin DOMAIN lastWrite)]_vars

\* An Update has succeeded after the last SaveSnapshot failed.
C22_Witness ==
    /\ snap.state = "failed"
    /\ \E p \in Handlers : pc[p] = "update_return" /\ local[p].err = None

\* C23: the state SaveSnapshot works on is the state at the instant it took
\* the lock: memory stays at it for the whole call, the bytes marshalled are
\* its serialization, and a successful call leaves exactly them in the file.
C23_SnapshotIsOneInstant ==
    /\ pc[Loop] # "idle"
           => (Bookmarks = snap.bookmarks /\ IdxCounter = snap.counter)
    /\ pc[Loop] \notin {"idle", "snap_marshal"}
           => buf = Marshal(snap.bookmarks, snap.counter)
    /\ snap.state = "ok" => file = Marshal(snap.bookmarks, snap.counter)

\* A snapshot of a non-empty collection succeeded and memory has moved on.
C23_Witness ==
    /\ snap.state = "ok"
    /\ snap.bookmarks # EmptyMap
    /\ Bookmarks # snap.bookmarks

\* C24 (as claimed): no step of Add, Update, Delete, Get or List changes the
\* backing file, and a restart with no SaveSnapshot since the last successful
\* one restores exactly the state that snapshot was taken of.
C24_ReloadIsLastSnapshot ==
    [][/\ (\E p \in Handlers : pc'[p] # pc[p]) => file' = file
       /\ (phase = "down" /\ phase' = "serving" /\ snap.state = "ok")
           => (Bookmarks' = snap.bookmarks /\ IdxCounter' = snap.counter)]_vars

\* C24 (amended): the same, the restored state being exact when every string
\* of every record of the snapshot is valid UTF-8.
C24_ReloadIsLastValidSnapshot ==
    [][/\ (\E p \in Handlers : pc'[p] # pc[p]) => file' = file
       /\ (/\ phase = "down" /\ phase' = "serving"
           /\ snap.state = "ok" /\ ValidStore(snap.bookmarks))
           => (Bookmarks' = snap.bookmarks /\ IdxCounter' = snap.counter)]_vars

\* The process has ended after a record of the last successful snapshot was
\* deleted, and the file still reloads to the snapshot with that record.
C24_Witness ==
    /\ phase = "down" /\ snap.state = "ok" /\ ValidStore(snap.bookmarks)
    /\ DOMAIN snap.bookmarks \ DOMAIN Bookmarks # {}
    /\ Loaded(file).Bookmarks = snap.bookmarks

\* C25: NewStore on an absent or empty file gives an empty collection and
\* counter 0; on a non-empty file that does not decode the program never
\* serves and no request runs.
C25_LoadEmptyOrFail ==
    /\ (phase = "serving" /\ fresh /\ Size(file) = 0)
           => (Bookmarks = EmptyMap /\ IdxCounter = 0)
    /\ (Size(file) > 0 /\ ~Decode(file).ok)
           => (phase = "down" /\ \A p \in Procs : pc[p] = "idle")

\* Startup has failed on a file that does not decode.
C25_Witness == exit = "load_error" /\ file = PartialFile

\* C26 (as claimed): the file a SaveSnapshot of zero records wrote reloads to
\* an empty collection with counter 0.
C26_EmptySnapshotReloadsToZero ==
    (snap.state = "ok" /\ snap.bookmarks = EmptyMap)
        => Loaded(file) = [ok |-> TRUE, Bookmarks |-> EmptyMap, IdxCounter |-> 0]

\* C26 (amended): it reloads to an empty collection with the counter the
\* Store had, which is 0 only when no Add has ever returned.
C26_EmptySnapshotKeepsCounter ==
    (snap.state = "ok" /\ snap.bookmarks = EmptyMap)
        => Loaded(file) =
               [ok |-> TRUE, Bookmarks |-> EmptyMap, IdxCounter |-> snap.counter]

\* A snapshot of zero records was written by a Store whose counter is not 0.
C26_Witness ==
    snap.state = "ok" /\ snap.bookmarks = EmptyMap /\ snap.counter > 0

\* C27: the stop operation of the snapshot loop, Server.Close, has stopped
\* the loop when it is over, so that no SaveSnapshot follows it.
C27_NoSnapshotAfterStop ==
    closeCalls > 0
        => \E i \in DOMAIN closeLog : closeLog[i] = "stop_snapshot_loop"

\* C28: after a SaveSnapshot that failed, the loop is back at its select and
\* takes the next tick as soon as the lock is free, and the handlers go on.
C28_FailedSnapshotKeepsLoopRunning ==
    snap.state = "failed"
        => /\ pc[Loop] = "idle"
           /\ phase = "serving"
           /\ CanLock => ENABLED SnapLock
           /\ \A p \in Handlers : (Idle(p) /\ CanRLock) => ENABLED ListLock(p)

\* A handler is inside Add after the last SaveSnapshot failed.
C28_Witness ==
    /\ snap.state = "failed"
    /\ \E p \in Handlers : pc[p] = "add_insert"

\* C29: a call of the stop operation, Server.Close, returns normally: the
\* process goes on, or RunServe returns nil.
C29_StopReturnsNormally ==
    closeCalls > 0 => (phase = "serving" \/ exit = "close_ok")

\* the snapshot intervals that are positive durations
PositiveIntervals == {"1s"}

\* C30: no server runs with a snapshot interval that is not a positive
\* duration.
C30_IntervalIsPositive ==
    phase = "serving" => config.SnapshotInterval \in PositiveIntervals

\* C31: the Store has finished loading from the backing file before the
\* snapshot loop starts and before any request is served: a handler is inside
\* a Store operation only while the server serves, the loop only from
\* server.New on, the Store that New and Start are handed holds what the
\* backing file decodes to, and a load failure ends the start with every
\* goroutine idle.
C31_LoadBeforeServing ==
    /\ (\E p \in Handlers : pc[p] # "idle") => phase = "serving"
    /\ pc[Loop] # "idle" => phase \in {"constructed", "serving"}
    /\ (phase \in {"loaded", "constructed", "serving"} /\ fresh
            /\ snap.state = "none" /\ pc[Loop] = "idle")
        => /\ Loaded(file).ok
           /\ Bookmarks = Loaded(file).Bookmarks
           /\ IdxCounter = Loaded(file).IdxCounter
    /\ exit = "load_error" => (phase = "down" /\ \A p \in Procs : pc[p] = "idle")

C31_Witness ==
    /\ phase = "serving"
    /\ DOMAIN Bookmarks = {1}
    /\ snap.state = "ok"
    /\ \E p \in Handlers : pc[p] # "idle"

\* C32: validation is done before the Store is mutated: the create handler
\* and the update handler reject a record with an empty name, so no record
\* with an empty name is ever in the Store that the HTTP handlers write.
C32_NoEmptyNameInStore ==
    \A id \in DOMAIN Bookmarks : Bookmarks[id].Name # <<>>

\* The Authorization header a client sends for a user name and a password:
\* "Basic " and the base64 encoding of user ":" password (Client.addAuth).
Usernames == {<<>>, <<117>>}
Credential(user, password) == BasicPrefix \o EncodeToString(user \o <<Colon>> \o password)
Credentials == [password \in Passwords |-> {Credential(user, password) : user \in Usernames}]
Authorized(password, r) == r.path = "/health" \/ r.auth \in Credentials[password]

RetryableError(e) ==
    \/ e.kind = "request failed"
    \/ e.kind = "ClientError" /\ e.StatusCode >= 500
\* A 4xx status.
Is4xx(e) == e.kind = "ClientError" /\ e.StatusCode >= 400 /\ e.StatusCode <= 499

\* C34: one client call performs at most RetryAttempts+1 HTTP attempts; it
\* performs exactly RetryAttempts+1 when every attempt fails with a retryable
\* (5xx or network) error and then returns the last error; and it stops at the
\* first successful attempt, returning no error.
C34_RetryBound ==
    LET n == Len(client.trace)
    IN /\ n <= client.RetryAttempts + 1
       /\ (client.state = "returned" /\ \A i \in 1..n : RetryableError(client.trace[i]))
           => (n = client.RetryAttempts + 1 /\ client.err = client.trace[n])
       /\ \A i \in 1..n :
              client.trace[i] = Nil
              => (i = n /\ client.state = "returned" /\ client.err = Nil)

C34_Witness ==
    /\ client.state = "returned"
    /\ Len(client.trace) = 3
    /\ RetryableError(client.trace[1])
    /\ RetryableError(client.trace[2])
    /\ client.trace[3] = Nil
    /\ client.err = Nil

C37_AddCreatesAtMostOne ==
    client.op = "Add" => client.created <= 1

\* C36: after SaveSnapshot returned, on the success path and on every error
\* path, no temporary snapshot file remains in the directory of the backing
\* file.
C36_NoTempFileLeft ==
    pc[Loop] = "idle" => ~Exists(tmp)

\* C38: while the server runs with the snapshot loop started and not stopped,
\* and SaveSnapshot does not fail forever, every mutation committed in the
\* Store is eventually reflected in the backing file: whenever the file is
\* not the serialization of the Store, it later is.
C38_MutationsReachTheFile ==
    (file # Marshal(Bookmarks, IdxCounter)) ~> (file = Marshal(Bookmarks, IdxCounter))

C38_Witness ==
    /\ Len(log) > 1
    /\ Bookmarks # EmptyMap
    /\ snap.state = "ok"
    /\ file = Marshal(Bookmarks, IdxCounter)

\* C39: in the handlers of the web package every write to the shared
\* bookmark map happens while the write lock is held: no step inserts into
\* or deletes from the map while only the read lock is held.
C39_MapWritesHoldWriteLock ==
    [][Bookmarks' # Bookmarks => writer # None]_vars

====
